---------------------------- MODULE Spec2Model ----------------------------
(***************************************************************************)
(* A model of the api-cf gateway workers.                                  *)
(*                                                                         *)
(* The deployable workers are modelled, each from its own source:          *)
(*   "rotation" : src/cfapi/_worker.js lines 1-320   (key rotation, D1)    *)
(*   "caching"  : src/cfapi/_worker.js lines 322-531 (v4.1, response cache)*)
(*   "unified"  : src/unnamed/part_001 lines 1-260   (v9.0, both + dual    *)
(*                mode routing)                                            *)
(*   "logging"  : src/unnamed/part_000               (telemetry only)      *)
(*   "simple"   : src/unnamed/part_001 lines 262-404 (plain proxy)         *)
(*   "basic"    : src/unnamed/part_002               (plain proxy, 2 routes)*)
(* A behaviour fixes one worker (impl) and one environment (env) and then  *)
(* serves requests concurrently.  One action is one stretch of handler     *)
(* code between two awaits on a shared store (D1, the cache) or on the     *)
(* upstream; awaits on request-local data (reading the body, hashing) are  *)
(* inside the action.  The D1 table, the cache and the upstream API are    *)
(* the only things requests share.                                         *)
(***************************************************************************)
EXTENDS Integers, Sequences, FiniteSets, TLC

VARIABLES
  impl,     \* the deployed worker: "rotation", "caching", "unified", "logging",
            \* "simple" or "basic"
  env,      \* its bindings: MASTER_KEY, DB, LOGS and the <SERVICE>_KEYS secrets
  db,       \* D1 table rotation_state: service_name -> next_index (rows present)
  cache,    \* caches.default: cache-key URL -> stored response (entries present)
  puts,     \* cache.put calls handed to ctx.waitUntil and not yet executed
  pc,       \* per request: "idle", "rotate", "lookup", "dispatch", "done"
  req,      \* per request: the inbound Request
  ctx,      \* per request: the handler's local variables
  resp,     \* per request: the Response returned to the caller
  sent,     \* per request: the outbound requests handed to the Transport
  ups,      \* per request: the D1 upserts it executed, with what each returned
  looked,   \* per request: the cache lookups it made, with what each found
  stored,   \* per request: the cache.put calls it issued
  logs,     \* per request: the records handed to the telemetry sink
  conc      \* pairs of requests whose executions overlapped in time

vars == <<impl, env, db, cache, puts, pc, req, ctx, resp, sent, ups, looked,
          stored, logs, conc>>

----------------------------------------------------------------------------
(* Bounds of the model.                                                    *)

\* Requests served in one behaviour of the general specification.
MaxReq == 2
\* Requests served in one behaviour of the rotation specification.
MaxRotReq == 3
\* Largest credential pool configured for a service.
MaxPool == 2
\* Requests served in one behaviour of the routing specification.
MaxRouteReq == 1
\* Requests of the pipeline specification.
MaxPipeReq == 2
\* Requests of the telemetry specification.
MaxTelReq == 2
\* Requests of the cache-key specification.
MaxKeyReq == 2

----------------------------------------------------------------------------
(* JavaScript values.                                                      *)

\* null / undefined: a header that is absent, a binding that is not set.
Null == "<null>"

\* JavaScript truthiness of a string-or-null value.
Truthy(v) == v # Null /\ v # ""

Min(a, b) == IF a < b THEN a ELSE b

\* String.prototype.substring(from) and substring(from, to), 0-based.
SubstringFrom(s, from) == SubSeq(s, Min(from, Len(s)) + 1, Len(s))
Substring(s, from, to) == SubSeq(s, Min(from, Len(s)) + 1, Min(to, Len(s)))

\* String.prototype.startsWith(p)
StartsWith(s, p) == Len(s) >= Len(p) /\ SubSeq(s, 1, Len(p)) = p

\* String.prototype.includes(p)
Includes(s, p) ==
  \E i \in 1..(Len(s) + 1) : i + Len(p) - 1 <= Len(s) /\ SubSeq(s, i, i + Len(p) - 1) = p

\* The position (1-based) of the first occurrence of p in s, 0 when none.
IndexOf(s, p) ==
  LET hits == { i \in 1..Len(s) : i + Len(p) - 1 <= Len(s) /\ SubSeq(s, i, i + Len(p) - 1) = p }
  IN  IF hits = {} THEN 0 ELSE CHOOSE i \in hits : \A j \in hits : i <= j

\* String.prototype.split(sep) for a one-character separator.
RECURSIVE Split(_, _)
Split(s, sep) ==
  LET i == IndexOf(s, sep)
  IN  IF i = 0 THEN <<s>>
      ELSE <<SubSeq(s, 1, i - 1)>> \o Split(SubSeq(s, i + 1, Len(s)), sep)

\* Array.prototype.filter(Boolean) on an array of strings.
FilterBoolean(a) == SelectSeq(a, LAMBDA x : x # "")

\* Array.prototype.join(sep)
RECURSIVE Join(_, _)
Join(a, sep) ==
  IF a = <<>> THEN ""
  ELSE IF Len(a) = 1 THEN a[1]
  ELSE a[1] \o sep \o Join(Tail(a), sep)

\* String.prototype.toUpperCase / toLowerCase, letter by letter.
UpperOf ==
  [a |-> "A", b |-> "B", c |-> "C", d |-> "D", e |-> "E", f |-> "F", g |-> "G",
   h |-> "H", i |-> "I", j |-> "J", k |-> "K", l |-> "L", m |-> "M", n |-> "N",
   o |-> "O", p |-> "P", q |-> "Q", r |-> "R", s |-> "S", t |-> "T", u |-> "U",
   v |-> "V", w |-> "W", x |-> "X", y |-> "Y", z |-> "Z"]
LowerOf ==
  [A |-> "a", B |-> "b", C |-> "c", D |-> "d", E |-> "e", F |-> "f", G |-> "g",
   H |-> "h", I |-> "i", J |-> "j", K |-> "k", L |-> "l", M |-> "m", N |-> "n",
   O |-> "o", P |-> "p", Q |-> "q", R |-> "r", S |-> "s", T |-> "t", U |-> "u",
   V |-> "v", W |-> "w", X |-> "x", Y |-> "y", Z |-> "z"]

RECURSIVE MapChars(_, _)
MapChars(s, table) ==
  IF s = "" THEN ""
  ELSE LET c == SubSeq(s, 1, 1)
       IN  (IF c \in DOMAIN table THEN table[c] ELSE c) \o MapChars(SubSeq(s, 2, Len(s)), table)

toUpperCase(s) == MapChars(s, UpperOf)
toLowerCase(s) == MapChars(s, LowerOf)

\* Headers: a function from lower-cased header name to value.
HGet(h, n) == IF n \in DOMAIN h THEN h[n] ELSE Null
HSet(h, n, v) == [x \in DOMAIN h \cup {n} |-> IF x = n THEN v ELSE h[x]]
HDelete(h, n) == [x \in DOMAIN h \ {n} |-> h[x]]
NoHeaders == [x \in {} |-> ""]


----------------------------------------------------------------------------
(* Configuration shared by the three workers.                              *)

\* ROUTE_MAP: service token -> upstream host.
ROUTE_MAP ==
  [cerebras |-> "api.cerebras.ai",
   claude   |-> "api.anthropic.com",
   gemini   |-> "generativelanguage.googleapis.com",
   groq     |-> "api.groq.com",
   openai   |-> "api.openai.com"]

\* ROUTE_MAP is an object literal: besides its own keys it answers, with a
\* truthy value that is no host name, to the property names it inherits from
\* Object.prototype.
ObjectPrototypeKeys ==
  {"constructor", "toString", "valueOf", "hasOwnProperty", "__proto__"}
Inherited == "function Object() { [native code] }"

\* map[key]: undefined (falsy) when key is neither a route nor inherited.
RouteIn(map, key) ==
  IF key \in DOMAIN map THEN map[key]
  ELSE IF key \in ObjectPrototypeKeys THEN Inherited
  ELSE Null

\* ROUTE_MAP[key]
RouteOf(key) == RouteIn(ROUTE_MAP, key)

\* CACHE_TTL_SECONDS = 30 * 60, as it appears in the Cache-Control header.
CACHE_TTL_SECONDS == 1800
NON_CACHEABLE_PATHS == <<"/v1/images/generations">>
NON_CACHEABLE_MODELS == <<"dall-e", "vision", "image">>

\* The origin the worker is served from; request.url = Origin + pathname + search.
Origin == "https://gw.dev"

RequestUrl(request) == Origin \o request.pathname \o request.search

\* new URL(request.url).pathname.split('/').filter(Boolean)
PathSegments(request) == FilterBoolean(Split(request.pathname, "/"))

\* url.pathname = p: the URL setter keeps a path rooted.
SetPathname(p) == IF StartsWith(p, "/") THEN p ELSE "/" \o p

\* url.toString() after url.hostname = host and url.pathname = path.  The
\* hostname setter ignores a value that is no host name (the inherited
\* function, or undefined), and the URL keeps the worker's own origin.
UpstreamUrl(host, path, search) ==
  (IF host \in {Inherited, Null} THEN Origin ELSE "https://" \o host)
    \o SetPathname(path) \o search

----------------------------------------------------------------------------
(* Request bodies.  A body is absent, unparsable text, or a JSON object    *)
(* with an optional string field "model".                                  *)

NoBody   == [kind |-> "none", model |-> Null]
\* A body that is no JSON, with the text sent.
RawBody(text) == [kind |-> "text", model |-> Null, text |-> text]
TextBody == RawBody("hello")
JsonBody(m) == [kind |-> "json", model |-> m]

\* JSON.stringify of a parsed body / the text of a body as sent.
BodyText(body) ==
  CASE body.kind = "none" -> ""
    [] body.kind = "text" -> body.text
    [] body.kind = "json" ->
         IF body.model = Null THEN "{}" ELSE "{\"model\":\"" \o body.model \o "\"}"

\* await request.json(): the parsed body, or a SyntaxError.
ParsesAsJson(body) == body.kind = "json"

----------------------------------------------------------------------------
(* Responses.                                                              *)

Response(body, status) == [status |-> status, headers |-> NoHeaders, body |-> body]

\* response.ok
Ok(response) == response.status >= 200 /\ response.status <= 299

applyCorsHeaders(response) ==
  [response EXCEPT !.headers =
     HSet(HSet(HSet(@, "access-control-allow-origin", "*"),
               "access-control-allow-methods", "GET, POST, PUT, DELETE, PATCH, OPTIONS"),
          "access-control-allow-headers",
          "Content-Type, Authorization, x-api-key, x-goog-api-key, anthropic-version, openai-organization")]

handleOptions == applyCorsHeaders(Response("", 204))

NoResponse == Response("", 0)

\* What the Transport may do with a request: answer with a success status,
\* answer with an error status, or fail to connect.
UpstreamOutcomes == {"ok", "status429", "throw"}

\* The upstream's answer to request r (each answer is its own completion).
UpstreamResponse(r, outcome) ==
  IF outcome = "ok"
  THEN [status |-> 200, headers |-> ("content-type" :> "application/json"),
        body |-> "completion-" \o ToString(r)]
  ELSE [status |-> 429, headers |-> ("content-type" :> "application/json"),
        body |-> "rate limited"]

\* new Response(upstreamResponse.body, upstreamResponse); applyCorsHeaders(...)
ProxyResponse(upstream) == applyCorsHeaders(upstream)

----------------------------------------------------------------------------
(* The environment: bindings and secrets.                                  *)

MasterKey == "MK"
UserKey == "UK"

\* The value of a <SERVICE>_KEYS secret: not set, text that is not JSON, JSON
\* that is not an array, or a JSON array of n key strings.
KeysUnset   == [kind |-> "unset", keys |-> <<>>]
KeysInvalid == [kind |-> "invalid", keys |-> <<>>]
KeysObject  == [kind |-> "object", keys |-> <<>>]
KeysArray(service, n) ==
  [kind |-> "array", keys |-> [i \in 1..n |-> service \o "-key-" \o ToString(i)]]

\* env[`${service.toUpperCase()}_KEYS`]
SecretName(service) == toUpperCase(service) \o "_KEYS"
ServiceKeysEnv(e, service) ==
  IF SecretName(service) \in DOMAIN e.KEYS THEN e.KEYS[SecretName(service)] ELSE KeysUnset


\* JSON.parse(serviceKeysEnv) succeeds
ParsesAsKeys(secret) == secret.kind \in {"object", "array"}
\* Array.isArray(keys) && keys.length > 0
IsKeyList(secret) == secret.kind = "array" /\ Len(secret.keys) > 0

----------------------------------------------------------------------------
(* The D1 table rotation_state.                                            *)

NoRows == [x \in {} |-> 0]

\* INSERT INTO rotation_state (service_name, next_index) VALUES (?1, 1)
\* ON CONFLICT(service_name) DO UPDATE SET next_index = (next_index + 1) % ?2
\* RETURNING next_index;   one statement: D1 executes it atomically.
\* Yields the table after it and the next_index it returns.
\* Variant: the update leaves next_index where it was.
UpsertDropsIncrement(table, service, keysCount) ==
  LET next == IF service \in DOMAIN table THEN table[service] % keysCount ELSE 1
  IN  [table |-> (service :> next) @@ table, next_index |-> next]

\* Variant: the update has no WHERE on the service and advances every row.
UpsertEveryRow(table, service, keysCount) ==
  LET next == IF service \in DOMAIN table THEN (table[service] + 1) % keysCount ELSE 1
  IN  [table |-> [s \in DOMAIN table \cup {service} |->
                    IF s = service THEN next ELSE (table[s] + 1) % keysCount],
       next_index |-> next]

\* The statement as the source has it.

UpsertNextIndex(table, service, keysCount) ==
  LET next == IF service \in DOMAIN table THEN (table[service] + 1) % keysCount ELSE 1
  IN  [table |-> (service :> next) @@ table, next_index |-> next]

----------------------------------------------------------------------------
(* Per-request bookkeeping.                                                *)

Reqs == DOMAIN pc

InitCtx ==
  [service |-> Null, model |-> Null, logService |-> Null, logModel |-> Null,
   isIntelligentGateway |-> FALSE, requestBody |-> NoBody,
   overrideApiKey |-> Null, isCacheable |-> FALSE,
   cacheKey |-> [url |-> Null, method |-> "GET", headers |-> NoHeaders],
   cacheStatus |-> "N/A", errorMessage |-> Null,
   \* the branches taken: the rotation condition held, the pool passed its
   \* checks, the D1 statement failed
   activated |-> FALSE, poolOk |-> FALSE, storeFailed |-> FALSE]

NoRequest ==
  [method |-> "", pathname |-> "", search |-> "", headers |-> NoHeaders, body |-> NoBody]

\* Requests are numbered in the order they arrive.
Arrives(r) == pc[r] = "idle" /\ \A q \in Reqs : q < r => pc[q] # "idle"

InFlight == { q \in Reqs : pc[q] \notin {"idle", "done"} }

\* The requests still running when r arrives overlap with it.
Overlaps(r) == conc \cup { {r, q} : q \in InFlight }

\* A telemetry record, as writeDataPoint receives it (latency left out: the
\* model has no clock).
DataPoint(service, model, status, errorMessage, cacheStatus) ==
  [service |-> service, model |-> model, status |-> status,
   errorMessage |-> errorMessage, cacheStatus |-> cacheStatus]

\* The D1 statements executed so far for a service, over all requests.
Upserts(service) ==
  { <<q, i>> \in Reqs \X (1..Cardinality(Reqs)) :
      i \in DOMAIN ups[q] /\ ups[q][i].service = service }

\* What is recorded of one executed statement: its service, the next_index
\* it returned, the array index made of it, the size of the pool, and its
\* place in the order in which D1 executed the statements for the service.
UpsertRecord(service, next_index, index, keysCount) ==
  [service |-> service, next_index |-> next_index, index |-> index,
   keysCount |-> keysCount, nth |-> Cardinality(Upserts(service)) + 1]

\* await fetch(proxyRequest): the Transport is handed the request.
\* Variant: the request is handed over a second time (a retry).
FetchTwice(sentSoFar, proxyRequest) == Append(Append(sentSoFar, proxyRequest), proxyRequest)

Fetch(sentSoFar, proxyRequest) == Append(sentSoFar, proxyRequest)

----------------------------------------------------------------------------
(* The rotation worker: src/cfapi/_worker.js, lines 1-320.                 *)

\* extractApiKey(request, service)
extractApiKey(request, service) ==
  LET authHeader == HGet(request.headers, "authorization")
      xApiKeyHeader == HGet(request.headers, "x-api-key")
      xGoogApiKeyHeader == HGet(request.headers, "x-goog-api-key")
  IN  CASE toLowerCase(service) = "gemini" ->
             IF Truthy(xGoogApiKeyHeader) THEN xGoogApiKeyHeader ELSE Null
        [] toLowerCase(service) = "claude" ->
             IF Truthy(xApiKeyHeader) THEN xApiKeyHeader ELSE Null
        [] OTHER ->
             IF Truthy(authHeader) /\ StartsWith(authHeader, "Bearer ")
             THEN SubstringFrom(authHeader, 7) ELSE Null

\* extractRequestData(request): {service, model}
extractRequestData(request) ==
  LET pathSegments == PathSegments(request)
      service == IF Len(pathSegments) >= 1 THEN pathSegments[1] ELSE "unknown"
      bodyModel ==
        IF request.method = "POST" /\ ParsesAsJson(request.body)
           /\ Truthy(request.body.model)
        THEN request.body.model ELSE "unknown"
      model ==
        IF service = "gemini" /\ Len(pathSegments) >= 4
        THEN Split(pathSegments[4], ":")[1] ELSE bodyModel
  IN  [service |-> service, model |-> model]

\* logRequest(env, requestData, response, startTime, error): the data points
\* it writes (none without the LOGS binding).
logRequest(e, requestData, response, errorMessage) ==
  IF ~e.LOGS THEN <<>>
  ELSE <<DataPoint(IF Truthy(requestData.service) THEN requestData.service ELSE "unknown",
                   IF Truthy(requestData.model) THEN requestData.model ELSE "unknown",
                   response.status, errorMessage, Null)>>

\* getNextKeyIndex's mapping of the returned next_index to an array index:
\*   const nextIndex = results[0]?.next_index || 1;
\*   return (nextIndex - 1 + keysCount) % keysCount;
getNextKeyIndex(next_index, keysCount) ==
  LET nextIndex == IF next_index = 0 THEN 1 ELSE next_index
  IN  (nextIndex - 1 + keysCount) % keysCount

\* The headers of the proxy request once a key was selected (switch on service).
\* Variant: the key goes into the Authorization header for every service.
RotationHeadersBearerOnly(headers, service, selectedKey) ==
  HSet(headers, "authorization", "Bearer " \o selectedKey)

RotationHeaders(headers, service, selectedKey) ==
  CASE toLowerCase(service) = "gemini" -> HSet(headers, "x-goog-api-key", selectedKey)
    [] toLowerCase(service) = "claude" -> HSet(headers, "x-api-key", selectedKey)
    [] OTHER -> HSet(headers, "authorization", "Bearer " \o selectedKey)

\* new Request(url.toString(), {method, headers, body, redirect}) of
\* handleRequestWithRotation.
RotationProxyRequest(request, service, headers) ==
  [url |-> UpstreamUrl(RouteOf(service),
                       SubstringFrom(request.pathname, Len(service) + 1),
                       request.search),
   method |-> request.method, headers |-> headers, body |-> BodyText(request.body)]

\* if (masterKey && requestApiKey === masterKey)
RotationEnabled(e, request, service) ==
  Truthy(e.MASTER_KEY) /\ extractApiKey(request, service) = e.MASTER_KEY


\* What reaches the sink of the records a log function builds: all of them,
\* or none when writeDataPoint throws.
WriteOutcomes(records) == IF env.LOGS_THROWS THEN {records, <<>>} ELSE {records}

\* The request ends: the response goes to the caller, the records to the sink.
\* Variant: the response goes out and the handler stays where it was.
FinishWithoutEnding(r, response, records) ==
  /\ pc' = pc
  /\ resp' = [resp EXCEPT ![r] = response]
  /\ logs' = [logs EXCEPT ![r] = @ \o records]

\* Variant: the handler awaits the telemetry write and answers 500 when it
\* did not take place.
FinishAwaitsTelemetry(r, response, records) ==
  /\ pc' = [pc EXCEPT ![r] = "done"]
  /\ \E written \in WriteOutcomes(records) :
       /\ logs' = [logs EXCEPT ![r] = @ \o written]
       /\ resp' = [resp EXCEPT ![r] =
                     IF written = <<>> THEN Response("telemetry failed", 500) ELSE response]

\* ctx.waitUntil(log(...)): the log function is async, so an exception of
\* writeDataPoint rejects the promise handed to waitUntil and goes no further.
Finish(r, response, records) ==
  /\ pc' = [pc EXCEPT ![r] = "done"]
  /\ resp' = [resp EXCEPT ![r] = response]
  /\ \E written \in WriteOutcomes(records) : logs' = [logs EXCEPT ![r] = @ \o written]

\* The request goes on to its next await.
Continue(r, next) ==
  /\ pc' = [pc EXCEPT ![r] = next]
  /\ UNCHANGED <<resp, logs>>

\* The worker's own messages (Chinese in the source, rendered in ASCII here):
\* line 111, lines 177 and 185, line 216, line 61, line 84.
MsgUrlFormat == "url format error"
MsgNotConfigured == "rotation api key not configured"
MsgConfigError == "rotation config error: "
MsgNoDb == "D1 database not configured"
MsgDbError == "D1 database error: "

\* The message of the error D1 throws when the statement cannot be executed.
D1Error == "D1_ERROR: no such table"
\* The message of the TypeError fetch() throws when it cannot connect.
FetchError == "Network connection lost."
\* The message of the SyntaxError JSON.parse throws.
JsonError == "Unexpected token"

\* fetch, lines 96-119, and handleRequestWithRotation, lines 150-189: from the
\* arrival of the request to the await on D1 (rotation) or on the upstream.
RotationReceive(r, request) ==
  /\ impl = "rotation"
  /\ Arrives(r)
  /\ req' = [req EXCEPT ![r] = request]
  /\ conc' = Overlaps(r)
  /\ LET pathSegments == PathSegments(request)
         requestData == extractRequestData(request)
         service == requestData.service
         c0 == [InitCtx EXCEPT !.service = service, !.model = requestData.model]
         c1 == [c0 EXCEPT !.activated = TRUE]
         serviceKeysEnv == ServiceKeysEnv(env, service)
         notConfigured == Response(MsgNotConfigured, 326)
         configError == Response(MsgConfigError \o JsonError, 500)
     IN  IF Len(pathSegments) < 1 \/ ~Truthy(RouteOf(pathSegments[1]))
         THEN /\ Finish(r, Response(MsgUrlFormat, 325), <<>>)
              /\ ctx' = ctx
         ELSE IF request.method = "OPTIONS"
         THEN /\ Finish(r, handleOptions, logRequest(env, requestData, handleOptions, Null))
              /\ ctx' = [ctx EXCEPT ![r] = c0]
         ELSE IF ~RotationEnabled(env, request, service)
         THEN /\ Continue(r, "dispatch")
              /\ ctx' = [ctx EXCEPT ![r] = c0]
         ELSE IF serviceKeysEnv.kind = "unset"
         THEN /\ Finish(r, notConfigured, logRequest(env, requestData, notConfigured, Null))
              /\ ctx' = [ctx EXCEPT ![r] = c1]
         ELSE IF ~ParsesAsKeys(serviceKeysEnv)
         THEN /\ Finish(r, configError, logRequest(env, requestData, configError, Null))
              /\ ctx' = [ctx EXCEPT ![r] = c1]
         ELSE IF ~IsKeyList(serviceKeysEnv)
         THEN /\ Finish(r, notConfigured, logRequest(env, requestData, notConfigured, Null))
              /\ ctx' = [ctx EXCEPT ![r] = c1]
         ELSE /\ Continue(r, "rotate")
              /\ ctx' = [ctx EXCEPT ![r] = [c1 EXCEPT !.poolOk = TRUE]]
  /\ UNCHANGED <<impl, env, db, cache, puts, sent, ups, looked, stored>>

\* getNextKeyIndex, lines 59-86, and handleRequestWithRotation, lines 189-217:
\* the D1 statement and the selection of the key.
RotationRotate(r, storeOk) ==
  /\ impl = "rotation"
  /\ pc[r] = "rotate"
  /\   LET service == ctx[r].service
           requestData == [service |-> service, model |-> ctx[r].model]
           serviceKeys == ServiceKeysEnv(env, service).keys
           keysCount == Len(serviceKeys)
           up == UpsertNextIndex(db, service, keysCount)
           nextIndex == getNextKeyIndex(up.next_index, keysCount)
           noDb == Response(MsgConfigError \o MsgNoDb, 500)
           dbError == Response(MsgConfigError \o MsgDbError \o D1Error, 500)
       IN  IF ~env.DB
           THEN /\ Finish(r, noDb, logRequest(env, requestData, noDb, Null))
                /\ UNCHANGED <<db, ups, ctx>>
           ELSE IF ~storeOk
           THEN /\ Finish(r, dbError, logRequest(env, requestData, dbError, Null))
                /\ ctx' = [ctx EXCEPT ![r].storeFailed = TRUE]
                /\ UNCHANGED <<db, ups>>
           ELSE /\ Continue(r, "dispatch")
                /\ db' = up.table
                /\ ups' = [ups EXCEPT ![r] = Append(@,
                             UpsertRecord(service, up.next_index, nextIndex, keysCount))]
                /\ ctx' = [ctx EXCEPT ![r].overrideApiKey = serviceKeys[nextIndex + 1]]
  /\ UNCHANGED <<impl, env, cache, puts, req, sent, looked, stored, conc>>

\* handleRequestWithRotation, lines 207-233, and fetch, lines 121-138: the
\* upstream call, the response and its log record.
RotationDispatch(r, outcome) ==
  /\ impl = "rotation"
  /\ pc[r] = "dispatch"
  /\   LET service == ctx[r].service
           requestData == [service |-> service, model |-> ctx[r].model]
           headers == IF ctx[r].activated
                      THEN RotationHeaders(req[r].headers, service, ctx[r].overrideApiKey)
                      ELSE req[r].headers
           proxyRequest == RotationProxyRequest(req[r], service, headers)
           response == ProxyResponse(UpstreamResponse(r, outcome))
           failure == Response(FetchError, 500)
       IN  /\ sent' = [sent EXCEPT ![r] = Fetch(@, proxyRequest)]
           /\ IF outcome = "throw"
              THEN /\ Finish(r, failure, logRequest(env, requestData, failure, FetchError))
                   /\ ctx' = [ctx EXCEPT ![r].errorMessage = FetchError]
              ELSE /\ Finish(r, response, logRequest(env, requestData, response, Null))
                   /\ ctx' = ctx
  /\ UNCHANGED <<impl, env, db, cache, puts, req, ups, looked, stored, conc>>


----------------------------------------------------------------------------
(* The cache (caches.default) and cache keys.                              *)

NoEntries == [x \in {} |-> NoResponse]

\* crypto.subtle.digest('SHA-256', data), hex-encoded.  The digest is modelled
\* as collision-free: distinct data have distinct digests.
Sha256Hex(data) == "sha256(" \o data \o ")"

\* await cache.match(cacheKey): the entry stored under the key's URL, if any.
CacheHas(key) == key.url \in DOMAIN cache
CacheMatch(key) == cache[key.url]

\* What is recorded of one lookup: the key, whether an entry was there, and
\* the entry.
Lookup(key) ==
  [key |-> key, found |-> key.url \in DOMAIN cache,
   entry |-> IF key.url \in DOMAIN cache THEN cache[key.url] ELSE NoResponse]

\* Variant: the response is stored without clone(), its body already read.
ResponseToCacheConsumed(response) ==
  [response EXCEPT !.body = "",
                   !.headers = HSet(@, "cache-control", "max-age=" \o ToString(CACHE_TTL_SECONDS))]

\* responseToCache: response.clone() with Cache-Control set.
ResponseToCache(response) ==
  [response EXCEPT !.headers =
     HSet(@, "cache-control", "max-age=" \o ToString(CACHE_TTL_SECONDS))]

\* ctx.waitUntil(cache.put(cacheKey, responseToCache)) runs on its own, after
\* the handler issued it; a later put to the same key replaces the entry.
\* Variant: the put completes and leaves the cache as it was.
CachePutLost(p) ==
  /\ p \in puts
  /\ puts' = puts \ {p}
  /\ UNCHANGED <<impl, env, db, cache, pc, req, ctx, resp, sent, ups, looked, stored, logs, conc>>

CachePut(p) ==
  /\ p \in puts
  /\ puts' = puts \ {p}
  /\ cache' = (p.key.url :> p.response) @@ cache
  /\ UNCHANGED <<impl, env, db, pc, req, ctx, resp, sent, ups, looked, stored, logs, conc>>

----------------------------------------------------------------------------
(* The unified worker: src/unnamed/part_001, lines 1-260.                  *)

\* The query string as its parameters, "k=v" each.
QueryParams(search) ==
  IF search = "" THEN <<>> ELSE FilterBoolean(Split(SubstringFrom(search, 1), "&"))

\* url.searchParams.has('key') / .get('key')
HasKeyParam(search) == \E i \in DOMAIN QueryParams(search) : StartsWith(QueryParams(search)[i], "key=")
GetKeyParam(search) ==
  LET ps == QueryParams(search)
      i == CHOOSE j \in DOMAIN ps :
             StartsWith(ps[j], "key=") /\ \A k \in DOMAIN ps : StartsWith(ps[k], "key=") => j <= k
  IN  SubstringFrom(ps[i], 4)

\* url.searchParams.set('key', value): the first key parameter takes the
\* value and the others go; without one, the parameter is appended.
SetKeyParam(search, value) ==
  LET ps == QueryParams(search)
      isKey(x) == StartsWith(x, "key=")
      first == CHOOSE j \in DOMAIN ps : isKey(ps[j]) /\ \A k \in DOMAIN ps : isKey(ps[k]) => j <= k
      set == [j \in DOMAIN ps |-> IF j = first THEN "key=" \o value
                                  ELSE IF isKey(ps[j]) THEN "" ELSE ps[j]]
  IN  IF HasKeyParam(search)
      THEN "?" \o Join(FilterBoolean(set), "&")
      ELSE "?" \o Join(Append(ps, "key=" \o value), "&")

\* getApiKey(request)
getApiKey(request) ==
  LET authHeader == HGet(request.headers, "authorization")
      googHeader == HGet(request.headers, "x-goog-api-key")
  IN  IF Truthy(authHeader) /\ StartsWith(authHeader, "Bearer ")
      THEN SubstringFrom(authHeader, 7)
      ELSE IF Truthy(googHeader) THEN googHeader
      ELSE IF HasKeyParam(request.search) THEN GetKeyParam(request.search)
      ELSE Null

\* Variant: the keywords are looked for in the model as it was sent.
IsCacheableCaseSensitive(request, model) ==
  /\ request.method = "POST"
  /\ ~\E i \in DOMAIN NON_CACHEABLE_PATHS : Includes(request.pathname, NON_CACHEABLE_PATHS[i])
  /\ ~\E i \in DOMAIN NON_CACHEABLE_MODELS : Includes(model, NON_CACHEABLE_MODELS[i])

\* isRequestCacheable(request, model)
isRequestCacheable(request, model) ==
  /\ request.method = "POST"
  /\ ~\E i \in DOMAIN NON_CACHEABLE_PATHS : Includes(request.pathname, NON_CACHEABLE_PATHS[i])
  /\ ~\E i \in DOMAIN NON_CACHEABLE_MODELS : Includes(toLowerCase(model), NON_CACHEABLE_MODELS[i])

\* Variant: the Authorization header is part of the hashed data.
KeyHashesCredential(request, bodyOverride) ==
  LET body == IF Truthy(bodyOverride) THEN bodyOverride ELSE BodyText(request.body)
      dataToHash == RequestUrl(request) \o request.method \o body
                      \o HGet(request.headers, "authorization")
  IN  [url |-> "https://cache.internal/" \o Sha256Hex(dataToHash),
       method |-> "GET", headers |-> NoHeaders]

\* generateContentBasedCacheKey(request, bodyOverride): the key Request.
generateContentBasedCacheKey(request, bodyOverride) ==
  LET body == IF Truthy(bodyOverride) THEN bodyOverride ELSE BodyText(request.body)
      dataToHash == RequestUrl(request) \o request.method \o body
  IN  [url |-> "https://cache.internal/" \o Sha256Hex(dataToHash),
       method |-> "GET", headers |-> NoHeaders]

\* Variant: only a missing credential is refused.
UnauthorizedWhenAbsent(e, incomingApiKey) == ~Truthy(incomingApiKey)

\* if (!incomingApiKey || incomingApiKey !== env.MASTER_KEY), line 49
Unauthorized(e, incomingApiKey) ==
  ~Truthy(incomingApiKey) \/ incomingApiKey # e.MASTER_KEY

\* The routing of lines 46-74: the locals it sets, or the error it throws.
UnifiedRoute(e, request) ==
  LET incomingApiKey == getApiKey(request)
      body == request.body
      model == IF Truthy(body.model) THEN body.model ELSE ""
      modelParts == Split(model, "/")
      pathSegments == PathSegments(request)
      tService == IF Len(pathSegments) >= 1 THEN pathSegments[1] ELSE "unknown"
      tModel == IF ParsesAsJson(body) /\ Truthy(body.model) THEN body.model ELSE "unknown"
      thrown(c, message, status) == [ctx |-> c, error |-> message, status |-> status]
      intelligent == [InitCtx EXCEPT !.isIntelligentGateway = TRUE]
  IN  IF StartsWith(request.pathname, "/v1/chat/completions")
      THEN IF Unauthorized(e, incomingApiKey)
           THEN thrown(intelligent, "This endpoint requires a valid Master Key.", 401)
           ELSE IF ~ParsesAsJson(body)
           THEN thrown(intelligent, JsonError, 500)
           ELSE IF Len(modelParts) < 2 \/ ~Truthy(RouteOf(modelParts[1]))
           THEN thrown([intelligent EXCEPT !.requestBody = body, !.model = model],
                       "Invalid model format. Expected 'provider/model_name', received: '"
                         \o model \o "'", 400)
           ELSE [ctx |-> [intelligent EXCEPT
                            !.service = modelParts[1],
                            !.model = model,
                            !.logService = modelParts[1],
                            !.logModel = Join(Tail(modelParts), "/"),
                            !.requestBody = JsonBody(Join(Tail(modelParts), "/"))],
                 error |-> Null, status |-> 0]
      ELSE [ctx |-> [InitCtx EXCEPT !.service = tService, !.model = tModel,
                                    !.logService = tService, !.logModel = tModel],
            error |-> Null, status |-> 0]

\* if (env.MASTER_KEY && env.DB && incomingApiKey === env.MASTER_KEY)
UnifiedRotationEnabled(e, request) ==
  Truthy(e.MASTER_KEY) /\ e.DB /\ getApiKey(request) = e.MASTER_KEY

\* Lines 82-84: the caching decision and the cache key.
UnifiedCaching(request, c) ==
  LET isCacheable == isRequestCacheable(request, c.logModel)
      bodyOverride == IF c.isIntelligentGateway THEN BodyText(c.requestBody) ELSE Null
  IN  [c EXCEPT !.isCacheable = isCacheable,
                !.cacheKey = IF isCacheable
                             THEN generateContentBasedCacheKey(request, bodyOverride)
                             ELSE @]

\* logToAnalyticsEngine(env, data): the data points it writes.
logToAnalyticsEngine(e, service, model, cacheStatus, statusCode, errorMessage) ==
  IF ~e.LOGS THEN <<>>
  ELSE <<DataPoint(IF Truthy(service) THEN service ELSE "unknown",
                   IF Truthy(model) THEN model ELSE "unknown",
                   IF statusCode = 0 THEN 500 ELSE statusCode,
                   IF Truthy(errorMessage) THEN errorMessage ELSE "",
                   IF Truthy(cacheStatus) THEN cacheStatus ELSE "unknown")>>

\* catch (lines 104-109) and finally (110-124): the error becomes a response.
UnifiedThrow(r, c, message, status) ==
  LET response == Response("{\"error\":{\"message\":\"" \o message \o "\"}}", status)
      logService == IF Truthy(c.service) THEN c.service ELSE "unknown"
      logModel == IF Truthy(c.model) THEN c.model ELSE "unknown"
  IN  /\ ctx' = [ctx EXCEPT ![r] = [c EXCEPT !.errorMessage = message,
                                             !.logService = logService,
                                             !.logModel = logModel]]
      /\ Finish(r, response,
                logToAnalyticsEngine(env, logService, logModel, c.cacheStatus, status, message))

\* finally (110-124) on the normal path.
UnifiedReturn(r, c, response) ==
  /\ ctx' = [ctx EXCEPT ![r] = c]
  /\ Finish(r, response,
            logToAnalyticsEngine(env, c.logService, c.logModel, c.cacheStatus,
                                 response.status, Null))

\* After routing and rotation: on to the cache lookup or to the upstream.
UnifiedProceed(r, request, c) ==
  LET c1 == UnifiedCaching(request, c)
  IN  /\ ctx' = [ctx EXCEPT ![r] = c1]
      /\ Continue(r, IF c1.isCacheable THEN "lookup" ELSE "dispatch")


\* if (response.ok) on the miss path, lines 93-97: whether the response is put.
\* Variant: the response is put whatever its status.
UnifiedStoresAnyStatus(c, response) == c.isCacheable

UnifiedStores(c, response) == c.isCacheable /\ Ok(response)

\* Variant: the Authorization header is rewritten whether or not a key was
\* selected.
UnifiedProxyRequestAlwaysBearer(request, c) ==
  [url |-> UpstreamUrl(RouteOf(c.service),
                       SubstringFrom(request.pathname, Len(c.service) + 1), request.search),
   method |-> request.method,
   headers |-> HSet(request.headers, "authorization", "Bearer " \o c.overrideApiKey),
   body |-> BodyText(request.body)]

\* handleRequest, lines 168-194: the proxy request.
UnifiedProxyRequest(request, c) ==
  LET service == c.service
      path == IF c.isIntelligentGateway THEN "/v1/chat/completions"
              ELSE SubstringFrom(request.pathname, Len(service) + 1)
      override == Truthy(c.overrideApiKey)
      search == IF override /\ service = "gemini"
                THEN SetKeyParam(request.search, c.overrideApiKey)
                ELSE request.search
      h1 == IF ~override THEN request.headers
            ELSE IF service = "gemini"
            THEN HDelete(HDelete(request.headers, "authorization"), "x-goog-api-key")
            ELSE HSet(request.headers, "authorization", "Bearer " \o c.overrideApiKey)
      newHeaders == IF c.isIntelligentGateway
                    THEN HSet(h1, "content-type", "application/json") ELSE h1
  IN  [url |-> UpstreamUrl(RouteOf(service), path, search),
       method |-> request.method, headers |-> newHeaders,
       body |-> IF c.isIntelligentGateway THEN BodyText(c.requestBody)
                ELSE BodyText(request.body)]

\* getRotatingKeyFromD1's mapping of the returned next_index to an array index:
\*   const nextIndexRaw = results[0]?.next_index ?? 1;
\*   const currentIndex = (nextIndexRaw - 1 + keys.length) % keys.length;
getRotatingKeyIndex(next_index, keysCount) ==
  (next_index - 1 + keysCount) % keysCount

\* fetch, lines 34-79, and getRotatingKeyFromD1, lines 219-224: from the
\* arrival of the request to its first await on D1, the cache or the upstream.
UnifiedReceive(r, request) ==
  /\ impl = "unified"
  /\ Arrives(r)
  /\ req' = [req EXCEPT ![r] = request]
  /\ conc' = Overlaps(r)
  /\ LET route == UnifiedRoute(env, request)
         c == route.ctx
         c1 == [c EXCEPT !.activated = TRUE]
         secretName == SecretName(c.service)
         keyJson == ServiceKeysEnv(env, c.service)
     IN  IF route.error # Null
         THEN UnifiedThrow(r, c, route.error, route.status)
         ELSE IF ~UnifiedRotationEnabled(env, request)
         THEN UnifiedProceed(r, request, c)
         ELSE IF keyJson.kind = "unset"
         THEN UnifiedThrow(r, c1, "Rotation failed: Secret " \o secretName \o " not found.", 500)
         ELSE IF ~ParsesAsKeys(keyJson)
         THEN UnifiedThrow(r, c1, JsonError, 500)
         ELSE IF ~IsKeyList(keyJson)
         THEN UnifiedThrow(r, c1, "Rotation failed: Secret " \o secretName
                                    \o " is not a valid array.", 500)
         ELSE /\ ctx' = [ctx EXCEPT ![r] = [c1 EXCEPT !.poolOk = TRUE]]
              /\ Continue(r, "rotate")
  /\ UNCHANGED <<impl, env, db, cache, puts, sent, ups, looked, stored>>

\* getRotatingKeyFromD1, lines 226-234, and fetch, lines 81-84: the D1
\* statement, the selection of the key, the caching decision.
UnifiedRotate(r, storeOk) ==
  /\ impl = "unified"
  /\ pc[r] = "rotate"
  /\   LET c == ctx[r]
           keys == ServiceKeysEnv(env, c.service).keys
           up == UpsertNextIndex(db, c.service, Len(keys))
           currentIndex == getRotatingKeyIndex(up.next_index, Len(keys))
       IN  IF ~storeOk
           THEN /\ UnifiedThrow(r, [c EXCEPT !.storeFailed = TRUE],
                                "D1 Database Error: " \o D1Error, 500)
                /\ UNCHANGED <<db, ups>>
           ELSE /\ db' = up.table
                /\ ups' = [ups EXCEPT ![r] = Append(@,
                             UpsertRecord(c.service, up.next_index, currentIndex, Len(keys)))]
                /\ UnifiedProceed(r, req[r], [c EXCEPT !.overrideApiKey = keys[currentIndex + 1]])
  /\ UNCHANGED <<impl, env, cache, puts, req, sent, looked, stored, conc>>

\* fetch, lines 85-91: the cache lookup.
UnifiedLookup(r) ==
  /\ impl = "unified"
  /\ pc[r] = "lookup"
  /\ LET c == ctx[r]
     IN  /\ looked' = [looked EXCEPT ![r] = Append(@, Lookup(c.cacheKey))]
         /\ IF CacheHas(c.cacheKey)
            THEN UnifiedReturn(r, [c EXCEPT !.cacheStatus = "HIT"], CacheMatch(c.cacheKey))
            ELSE /\ ctx' = [ctx EXCEPT ![r].cacheStatus = "MISS"]
                 /\ Continue(r, "dispatch")
  /\ UNCHANGED <<impl, env, db, cache, puts, req, sent, ups, stored, conc>>

\* handleRequest, lines 165-200, and fetch, lines 92-102 and 110-124: the
\* upstream call, the cache.put it may issue, the response and its log record.
UnifiedDispatch(r, outcome) ==
  /\ impl = "unified"
  /\ pc[r] = "dispatch"
  /\   LET c == ctx[r]
           proxyRequest == UnifiedProxyRequest(req[r], c)
           response == ProxyResponse(UpstreamResponse(r, outcome))
           put == [key |-> c.cacheKey, response |-> ResponseToCache(response)]
       IN  IF req[r].method = "OPTIONS"
           THEN /\ UnifiedReturn(r, c, handleOptions)
                /\ UNCHANGED <<sent, puts, stored>>
           ELSE IF ~Truthy(RouteOf(c.service))
           THEN /\ UnifiedThrow(r, c, "Unknown service provider: \"" \o c.service \o "\".", 404)
                /\ UNCHANGED <<sent, puts, stored>>
           ELSE /\ sent' = [sent EXCEPT ![r] = Fetch(@, proxyRequest)]
                /\ IF outcome = "throw"
                   THEN /\ UnifiedThrow(r, c, FetchError, 500)
                        /\ UNCHANGED <<puts, stored>>
                   ELSE /\ UnifiedReturn(r, c, response)
                        /\ IF UnifiedStores(c, response)
                           THEN /\ puts' = puts \cup {put}
                                /\ stored' = [stored EXCEPT ![r] = Append(@, put)]
                           ELSE UNCHANGED <<puts, stored>>
  /\ UNCHANGED <<impl, env, db, cache, req, ups, looked, conc>>


----------------------------------------------------------------------------
(* The caching worker: src/cfapi/_worker.js, lines 322-531.                *)

\* Object.keys(ROUTE_MAP), in the order of the source.
RouteKeys == <<"cerebras", "claude", "gemini", "groq", "openai">>

\* The position of the last "/" of a path (1-based).
LastSlash(path) ==
  CHOOSE i \in 1..Len(path) :
    /\ SubSeq(path, i, i) = "/"
    /\ \A j \in (i + 1)..Len(path) : SubSeq(path, j, j) # "/"

\* new URL(relative, request.url).toString(): the relative reference replaces
\* the last segment of the path, and the query goes.
ResolveRelative(relative, request) ==
  Origin \o SubSeq(request.pathname, 1, LastSlash(request.pathname)) \o relative

\* generateCacheKey(request): the key Request.
generateCacheKey(request) ==
  LET dataToHash == RequestUrl(request) \o BodyText(request.body)
  IN  [url |-> ResolveRelative(Sha256Hex(dataToHash), request),
       method |-> "GET", headers |-> request.headers]

\* isRequestCacheable(request, requestData) of the caching worker.
isRequestCacheableData(request, requestData) ==
  /\ request.method = "POST"
  /\ ~\E i \in DOMAIN NON_CACHEABLE_PATHS : Includes(request.pathname, NON_CACHEABLE_PATHS[i])
  /\ ~\E i \in DOMAIN NON_CACHEABLE_MODELS :
        Includes(toLowerCase(requestData.model), NON_CACHEABLE_MODELS[i])

\* logRequest of the caching worker: the cache status is read from the
\* response's X-Cache-Status header.
logCachedRequest(e, requestData, response, errorMessage) ==
  IF ~e.LOGS THEN <<>>
  ELSE <<DataPoint(IF Truthy(requestData.service) THEN requestData.service ELSE "unknown",
                   IF Truthy(requestData.model) THEN requestData.model ELSE "unknown",
                   response.status, errorMessage,
                   IF Truthy(HGet(response.headers, "x-cache-status"))
                   THEN HGet(response.headers, "x-cache-status") ELSE "N/A")>>

WithCacheStatus(response, status) ==
  [response EXCEPT !.headers = HSet(@, "x-cache-status", status)]

\* fetch, lines 363-376: the request data, the caching decision, the key.
CachingReceive(r, request) ==
  /\ impl = "caching"
  /\ Arrives(r)
  /\ req' = [req EXCEPT ![r] = request]
  /\ conc' = Overlaps(r)
  /\ LET requestData == extractRequestData(request)
         isCacheable == isRequestCacheableData(request, requestData)
         c == [InitCtx EXCEPT !.service = requestData.service,
                              !.model = requestData.model,
                              !.isCacheable = isCacheable,
                              !.cacheKey = IF isCacheable THEN generateCacheKey(request) ELSE @]
     IN  /\ ctx' = [ctx EXCEPT ![r] = c]
         /\ Continue(r, IF isCacheable THEN "lookup" ELSE "dispatch")
  /\ UNCHANGED <<impl, env, db, cache, puts, sent, ups, looked, stored>>

\* fetch, lines 377-388: the cache lookup.
CachingLookup(r) ==
  /\ impl = "caching"
  /\ pc[r] = "lookup"
  /\ LET c == ctx[r]
         requestData == [service |-> c.service, model |-> c.model]
         responseWithHeader == WithCacheStatus(CacheMatch(c.cacheKey), "HIT")
     IN  /\ looked' = [looked EXCEPT ![r] = Append(@, Lookup(c.cacheKey))]
         /\ IF CacheHas(c.cacheKey)
            THEN /\ ctx' = [ctx EXCEPT ![r].cacheStatus = "HIT"]
                 /\ Finish(r, responseWithHeader,
                           logCachedRequest(env, requestData, responseWithHeader, Null))
            ELSE /\ ctx' = ctx
                 /\ Continue(r, "dispatch")
  /\ UNCHANGED <<impl, env, db, cache, puts, req, sent, ups, stored, conc>>

\* handleRequest, lines 420-435, and fetch, lines 390-415: the upstream call,
\* the cache.put it may issue, the response and its log record.
CachingDispatch(r, outcome) ==
  /\ impl = "caching"
  /\ pc[r] = "dispatch"
  /\   LET c == ctx[r]
           service == c.service
           requestData == [service |-> service, model |-> c.model]
           proxyRequest ==
             [url |-> UpstreamUrl(RouteOf(service),
                                  SubstringFrom(req[r].pathname, Len(service) + 1),
                                  req[r].search),
              method |-> req[r].method, headers |-> req[r].headers,
              body |-> BodyText(req[r].body)]
           unknownRoute ==
             Response("Unknown API route: \"" \o service \o "\". Available routes: "
                        \o Join(RouteKeys, ", "), 404)
           failure == WithCacheStatus(Response(FetchError, 500), "N/A")
           response ==
             IF req[r].method = "OPTIONS" THEN handleOptions
             ELSE IF ~Truthy(RouteOf(service)) THEN unknownRoute
             ELSE ProxyResponse(UpstreamResponse(r, outcome))
           toCache == c.isCacheable /\ Ok(response) /\ Truthy(c.cacheKey.url)
           status == IF toCache THEN "MISS" ELSE "N/A"
           put == [key |-> c.cacheKey, response |-> ResponseToCache(response)]
           upstream == req[r].method # "OPTIONS" /\ Truthy(RouteOf(service))
       IN  /\ sent' = IF upstream THEN [sent EXCEPT ![r] = Fetch(@, proxyRequest)] ELSE sent
           /\ IF upstream /\ outcome = "throw"
              THEN /\ ctx' = [ctx EXCEPT ![r].errorMessage = FetchError]
                   /\ Finish(r, failure, logCachedRequest(env, requestData, failure, FetchError))
                   /\ UNCHANGED <<puts, stored>>
              ELSE /\ ctx' = [ctx EXCEPT ![r].cacheStatus = status]
                   /\ Finish(r, response,
                             logCachedRequest(env, requestData,
                                              WithCacheStatus(response, status), Null))
                   /\ IF toCache
                      THEN /\ puts' = puts \cup {put}
                           /\ stored' = [stored EXCEPT ![r] = Append(@, put)]
                      ELSE UNCHANGED <<puts, stored>>
  /\ UNCHANGED <<impl, env, db, cache, req, ups, looked, conc>>


----------------------------------------------------------------------------
(* The logging worker: src/unnamed/part_000.                               *)

\* The body and the status of the rejection of line 47 (the body is Chinese
\* in the source).
MsgUrlFormat625 == "url format error"
UrlFormatStatus == 625

\* new Response(body, { status }): the constructor throws a RangeError when
\* the status is outside 200..599 (Fetch standard, "initialize a response").
StatusInRange(status) == status >= 200 /\ status <= 599
RangeErrorMsg ==
  "Responses may only be constructed with status codes in the range 200 to 599, inclusive."

\* fetch, lines 32-54, and handleRequest, lines 78-81: from the arrival of
\* the request to the await on the upstream.
LoggingReceive(r, request) ==
  /\ impl = "logging"
  /\ Arrives(r)
  /\ req' = [req EXCEPT ![r] = request]
  /\ conc' = Overlaps(r)
  /\ LET pathSegments == PathSegments(request)
         requestData == extractRequestData(request)
         c0 == [InitCtx EXCEPT !.service = requestData.service, !.model = requestData.model]
         \* let requestData = {} is still empty when line 47 throws
         noData == [service |-> Null, model |-> Null]
         failure == Response(RangeErrorMsg, 500)
     IN  IF Len(pathSegments) < 1 \/ ~Truthy(RouteOf(pathSegments[1]))
         THEN IF StatusInRange(UrlFormatStatus)
              THEN /\ Finish(r, Response(MsgUrlFormat625, UrlFormatStatus), <<>>)
                   /\ ctx' = ctx
              ELSE /\ Finish(r, failure, logRequest(env, noData, failure, RangeErrorMsg))
                   /\ ctx' = [ctx EXCEPT ![r].errorMessage = RangeErrorMsg]
         ELSE IF request.method = "OPTIONS"
         THEN /\ Finish(r, handleOptions, logRequest(env, requestData, handleOptions, Null))
              /\ ctx' = [ctx EXCEPT ![r] = c0]
         ELSE /\ Continue(r, "dispatch")
              /\ ctx' = [ctx EXCEPT ![r] = c0]
  /\ UNCHANGED <<impl, env, db, cache, puts, sent, ups, looked, stored>>

\* handleRequest, lines 83-101, and fetch, lines 56-73: the upstream call, the
\* response and its log record.
LoggingDispatch(r, outcome) ==
  /\ impl = "logging"
  /\ pc[r] = "dispatch"
  /\   LET service == ctx[r].service
           requestData == [service |-> service, model |-> ctx[r].model]
           proxyRequest == RotationProxyRequest(req[r], service, req[r].headers)
           response == ProxyResponse(UpstreamResponse(r, outcome))
           failure == Response(FetchError, 500)
       IN  /\ sent' = [sent EXCEPT ![r] = Fetch(@, proxyRequest)]
           /\ IF outcome = "throw"
              THEN /\ Finish(r, failure, logRequest(env, requestData, failure, FetchError))
                   /\ ctx' = [ctx EXCEPT ![r].errorMessage = FetchError]
              ELSE /\ Finish(r, response, logRequest(env, requestData, response, Null))
                   /\ ctx' = ctx
  /\ UNCHANGED <<impl, env, db, cache, puts, req, ups, looked, stored, conc>>

----------------------------------------------------------------------------
(* The plain proxies: src/unnamed/part_001, lines 262-404 ("simple"), and  *)
(* src/unnamed/part_002 ("basic").  They differ in their route table, in   *)
(* their messages and in the cross-origin headers they set.                *)

SimpleWorkers == {"simple", "basic"}

\* ROUTE_MAP of each, and Object.keys(ROUTE_MAP) in the order of the source.
SimpleRouteMap(i) ==
  IF i = "simple"
  THEN [gemini |-> "generativelanguage.googleapis.com", openai |-> "api.openai.com",
        groq |-> "api.groq.com", claude |-> "api.anthropic.com"]
  ELSE [gemini |-> "generativelanguage.googleapis.com", groq |-> "api.groq.com"]
SimpleRouteKeys(i) ==
  IF i = "simple" THEN <<"gemini", "openai", "groq", "claude">> ELSE <<"gemini", "groq">>

\* The 400 and 404 responses.
SimpleInvalid(i) ==
  IF i = "simple"
  THEN Response("Invalid request. Please use a path like /gemini/..., /openai/..., etc.", 400)
  ELSE Response("Invalid request. Please specify an API route, e.g., /gemini/... or /groq/...", 400)
SimpleUnknown(i, routeKey) ==
  Response((IF i = "simple" THEN "Unknown API route: \"" ELSE "Unknown API route key: \"")
             \o routeKey \o "\". Available routes: " \o Join(SimpleRouteKeys(i), ", "), 404)

\* The 502 response of the catch around fetch.
SimpleUnreachable == Response("Failed to connect to the upstream API.", 502)

\* applyCorsHeaders / setCorsHeaders
SimpleCors(i, response) ==
  IF i = "simple" THEN applyCorsHeaders(response)
  ELSE [response EXCEPT !.headers =
          HSet(HSet(HSet(@, "access-control-allow-origin", "*"),
                    "access-control-allow-methods", "GET, POST, OPTIONS, PATCH, PUT, DELETE"),
               "access-control-allow-headers",
               "Content-Type, Authorization, x-goog-api-key, x-api-key")]

\* handleRequest up to the await on the upstream.
SimpleReceive(r, request) ==
  /\ impl \in SimpleWorkers
  /\ Arrives(r)
  /\ req' = [req EXCEPT ![r] = request]
  /\ conc' = Overlaps(r)
  /\ LET pathSegments == PathSegments(request)
         routeKey == pathSegments[1]
     IN  IF request.method = "OPTIONS"
         THEN /\ Finish(r, SimpleCors(impl, Response("", 204)), <<>>)
              /\ ctx' = ctx
         ELSE IF Len(pathSegments) < 1
         THEN /\ Finish(r, SimpleInvalid(impl), <<>>)
              /\ ctx' = ctx
         ELSE IF ~Truthy(RouteIn(SimpleRouteMap(impl), routeKey))
         THEN /\ Finish(r, SimpleUnknown(impl, routeKey), <<>>)
              /\ ctx' = [ctx EXCEPT ![r].service = routeKey]
         ELSE /\ Continue(r, "dispatch")
              /\ ctx' = [ctx EXCEPT ![r].service = routeKey]
  /\ UNCHANGED <<impl, env, db, cache, puts, sent, ups, looked, stored>>

\* handleRequest: the upstream call and the response.
SimpleDispatch(r, outcome) ==
  /\ impl \in SimpleWorkers
  /\ pc[r] = "dispatch"
  /\   LET pathSegments == PathSegments(req[r])
           proxyRequest ==
             [url |-> UpstreamUrl(RouteIn(SimpleRouteMap(impl), ctx[r].service),
                                  "/" \o Join(Tail(pathSegments), "/"), req[r].search),
              method |-> req[r].method, headers |-> req[r].headers,
              body |-> BodyText(req[r].body)]
       IN  /\ sent' = [sent EXCEPT ![r] = Fetch(@, proxyRequest)]
           /\ IF outcome = "throw"
              THEN /\ Finish(r, SimpleUnreachable, <<>>)
                   /\ ctx' = [ctx EXCEPT ![r].errorMessage = FetchError]
              ELSE /\ Finish(r, SimpleCors(impl, UpstreamResponse(r, outcome)), <<>>)
                   /\ ctx' = ctx
  /\ UNCHANGED <<impl, env, db, cache, puts, req, ups, looked, stored, conc>>

----------------------------------------------------------------------------
(* Environments and inbound requests of the specifications.                *)

\* LOGS_THROWS: whether a call of env.LOGS.writeDataPoint may throw.
Env(masterKey, dbBound, logsBound, keys) ==
  [MASTER_KEY |-> masterKey, DB |-> dbBound, LOGS |-> logsBound, LOGS_THROWS |-> FALSE,
   KEYS |-> keys]

\* OPENAI_KEYS and GEMINI_KEYS as arrays of n and m keys.
Pools(n, m) ==
  ("OPENAI_KEYS" :> KeysArray("openai", n)) @@ ("GEMINI_KEYS" :> KeysArray("gemini", m))

\* Deployments: fully configured; without a master key; without the D1
\* binding; with secrets that are missing or are not a list of keys.
Envs ==
  { Env(MasterKey, TRUE, TRUE, Pools(MaxPool, 1)),
    Env(Null, TRUE, TRUE, Pools(MaxPool, 1)),
    Env(MasterKey, FALSE, TRUE, Pools(MaxPool, 1)),
    Env(MasterKey, TRUE, FALSE,
        ("OPENAI_KEYS" :> KeysObject) @@ ("GEMINI_KEYS" :> KeysArray("gemini", 0))) }

\* Deployments with rotation fully configured, for every pool size.
RotationEnvs ==
  { Env(MasterKey, TRUE, TRUE, Pools(n, 1)) : n \in 1..MaxPool }

Bearer(key) == ("authorization" :> ("Bearer " \o key))
GoogKey(key) == ("x-goog-api-key" :> key)

Request(method, pathname, search, headers, body) ==
  [method |-> method, pathname |-> pathname, search |-> search,
   headers |-> headers, body |-> body]

\* Requests that present the master key, over two services, not cacheable.
RotationInputs ==
  { Request("GET", "/openai/v1/models", "", Bearer(MasterKey), NoBody),
    Request("GET", "/gemini/v1beta/models", "", GoogKey(MasterKey), NoBody) }

\* The requests of the general specification: a cacheable POST with the
\* master key and the same with the caller's own key, a GET for another
\* service with the master key, an intelligent-mode POST, a preflight.
Inputs ==
  { Request("POST", "/openai/v1/chat/completions", "", Bearer(MasterKey), JsonBody("gpt-4o")),
    Request("POST", "/openai/v1/chat/completions", "", Bearer(UserKey), JsonBody("gpt-4o")),
    Request("GET", "/gemini/v1beta/models", "", GoogKey(MasterKey), NoBody),
    Request("POST", "/v1/chat/completions", "", Bearer(MasterKey), JsonBody("openai/gpt-4o")),
    Request("OPTIONS", "/openai/v1/chat/completions", "", Bearer(MasterKey), NoBody) }

----------------------------------------------------------------------------
(* Specifications.                                                         *)

\* The state after deployment: n requests yet to arrive, an empty table, an
\* empty cache.
InitWith(impls, envs, n) ==
  /\ impl \in impls
  /\ env \in envs
  /\ db = NoRows
  /\ cache = NoEntries
  /\ puts = {}
  /\ pc = [r \in 1..n |-> "idle"]
  /\ req = [r \in 1..n |-> NoRequest]
  /\ ctx = [r \in 1..n |-> InitCtx]
  /\ resp = [r \in 1..n |-> NoResponse]
  /\ sent = [r \in 1..n |-> <<>>]
  /\ ups = [r \in 1..n |-> <<>>]
  /\ looked = [r \in 1..n |-> <<>>]
  /\ stored = [r \in 1..n |-> <<>>]
  /\ logs = [r \in 1..n |-> <<>>]
  /\ conc = {}

\* The caching worker reads no binding but LOGS: it is deployed with it and
\* without it.
CachingEnvs == { e \in Envs : Truthy(e.MASTER_KEY) /\ e.DB }

Init ==
  \/ InitWith({"rotation", "unified"}, Envs, MaxReq)
  \/ InitWith({"caching"}, CachingEnvs, MaxReq)

Next ==
  \/ \E r \in Reqs : \E request \in Inputs : RotationReceive(r, request)
  \/ \E r \in Reqs : \E storeOk \in BOOLEAN : RotationRotate(r, storeOk)
  \/ \E r \in Reqs : \E outcome \in UpstreamOutcomes : RotationDispatch(r, outcome)
  \/ \E r \in Reqs : \E request \in Inputs : CachingReceive(r, request)
  \/ \E r \in Reqs : CachingLookup(r)
  \/ \E r \in Reqs : \E outcome \in UpstreamOutcomes : CachingDispatch(r, outcome)
  \/ \E r \in Reqs : \E request \in Inputs : UnifiedReceive(r, request)
  \/ \E r \in Reqs : \E storeOk \in BOOLEAN : UnifiedRotate(r, storeOk)
  \/ \E r \in Reqs : UnifiedLookup(r)
  \/ \E r \in Reqs : \E outcome \in UpstreamOutcomes : UnifiedDispatch(r, outcome)
  \/ \E p \in puts : CachePut(p)

Spec == Init /\ [][Next]_vars

\* Rotation alone: both workers that rotate, every pool size, requests that
\* all present the master key, a D1 that executes every statement and an
\* upstream that answers every request.
InitRotation == InitWith({"rotation", "unified"}, RotationEnvs, MaxRotReq)

NextRotation ==
  \/ \E r \in Reqs : \E request \in RotationInputs : RotationReceive(r, request)
  \/ \E r \in Reqs : RotationRotate(r, TRUE)
  \/ \E r \in Reqs : RotationDispatch(r, "ok")
  \/ \E r \in Reqs : \E request \in RotationInputs : UnifiedReceive(r, request)
  \/ \E r \in Reqs : UnifiedRotate(r, TRUE)
  \/ \E r \in Reqs : UnifiedDispatch(r, "ok")

SpecRotation == InitRotation /\ [][NextRotation]_vars

----------------------------------------------------------------------------
(* Routing, classification and errors: every worker, requests of every     *)
(* shape, pools in every state of configuration.                           *)

\* OPENAI_KEYS is a list of keys, GEMINI_KEYS is not JSON, GROQ_KEYS is an
\* empty list, CLAUDE_KEYS is JSON but no list, CEREBRAS_KEYS is not set.
RoutingPools ==
  ("OPENAI_KEYS" :> KeysArray("openai", MaxPool)) @@ ("GEMINI_KEYS" :> KeysInvalid)
    @@ ("GROQ_KEYS" :> KeysArray("groq", 0)) @@ ("CLAUDE_KEYS" :> KeysObject)

\* Every service has a list of keys.
ServicePools ==
  ("OPENAI_KEYS" :> KeysArray("openai", MaxPool)) @@ ("GEMINI_KEYS" :> KeysArray("gemini", 1))
    @@ ("GROQ_KEYS" :> KeysArray("groq", 1)) @@ ("CLAUDE_KEYS" :> KeysArray("claude", 1))
    @@ ("CEREBRAS_KEYS" :> KeysArray("cerebras", 1))

RoutingEnvs ==
  { Env(MasterKey, TRUE, TRUE, ServicePools),
    Env(MasterKey, TRUE, TRUE, RoutingPools),
    Env(MasterKey, TRUE, FALSE, RoutingPools),
    Env(Null, TRUE, TRUE, RoutingPools),
    Env(MasterKey, FALSE, TRUE, RoutingPools) }

ChatPath == "/openai/v1/chat/completions"
IntelligentPath == "/v1/chat/completions"
GeminiModelPath == "/gemini/v1beta/models/gemini-pro:generateContent"

RoutingInputs ==
  { \* transparent mode, master key, one request per pool
    Request("POST", ChatPath, "", Bearer(MasterKey), JsonBody("gpt-4o")),
    Request("POST", "/gemini/v1beta/models", "", GoogKey(MasterKey), JsonBody(Null)),
    Request("POST", "/groq/openai/v1/chat/completions", "", Bearer(MasterKey), JsonBody("llama3")),
    Request("GET", "/cerebras/v1/models", "", Bearer(MasterKey), NoBody),
    Request("GET", "/claude/v1/models", "",
            Bearer(MasterKey) @@ ("x-api-key" :> MasterKey), NoBody),
    Request("POST", "/gemini/v1beta/models", "?alt=sse",
            Bearer(MasterKey) @@ GoogKey(MasterKey), JsonBody(Null)),
    \* no path segment, an unknown first segment, an inherited property name
    Request("GET", "/", "", Bearer(UserKey), NoBody),
    Request("POST", "/notarealservice/x", "", Bearer(UserKey), JsonBody("gpt-4o")),
    Request("GET", "/constructor/x", "", Bearer(UserKey), NoBody),
    \* intelligent mode
    Request("POST", IntelligentPath, "", Bearer(MasterKey), JsonBody("openai/gpt-4o")),
    Request("POST", IntelligentPath, "", Bearer(MasterKey), JsonBody("gpt-4o")),
    Request("POST", IntelligentPath, "", Bearer(MasterKey), JsonBody("nosuch/gpt-4o")),
    Request("POST", IntelligentPath, "", Bearer(MasterKey), JsonBody("constructor/gpt-4o")),
    Request("POST", IntelligentPath, "", Bearer(MasterKey), TextBody),
    Request("POST", IntelligentPath, "", Bearer(UserKey), JsonBody("openai/gpt-4o")),
    Request("POST", IntelligentPath, "", NoHeaders, JsonBody("openai/gpt-4o")),
    \* cacheability: the method, the path, the model
    Request("POST", ChatPath, "", Bearer(UserKey), JsonBody("DALL-E-3")),
    Request("POST", "/openai/v1/images/generations", "", Bearer(UserKey), JsonBody("gpt-4o")),
    Request("GET", ChatPath, "", Bearer(UserKey), JsonBody("gpt-4o")),
    Request("GET", "/openai/v1/images/generations", "", Bearer(UserKey), JsonBody("gpt-4-vision")),
    \* the model in the path of a gemini request
    Request("POST", GeminiModelPath, "", GoogKey(UserKey), JsonBody(Null)),
    Request("POST", GeminiModelPath, "", GoogKey(UserKey), JsonBody("gemini-1.5-flash")),
    \* a path that only starts with the intelligent-mode endpoint
    Request("POST", IntelligentPath \o "/extra", "", Bearer(MasterKey), JsonBody("openai/gpt-4o")),
    \* the credential in the query string
    Request("POST", GeminiModelPath, "?key=" \o UserKey, NoHeaders, JsonBody(Null)),
    \* preflights
    Request("OPTIONS", ChatPath, "", NoHeaders, NoBody),
    Request("OPTIONS", "/", "", NoHeaders, NoBody),
    Request("OPTIONS", IntelligentPath, "", NoHeaders, NoBody) }

InitRouting ==
  \/ InitWith({"rotation", "unified"}, RoutingEnvs, MaxRouteReq)
  \/ InitWith({"caching", "logging"}, { e \in RoutingEnvs : Truthy(e.MASTER_KEY) /\ e.DB },
              MaxRouteReq)
  \/ InitWith(SimpleWorkers, { e \in RoutingEnvs : Truthy(e.MASTER_KEY) /\ e.DB /\ e.LOGS },
              MaxRouteReq)

NextRouting ==
  \/ \E r \in Reqs : \E request \in RoutingInputs : RotationReceive(r, request)
  \/ \E r \in Reqs : \E storeOk \in BOOLEAN : RotationRotate(r, storeOk)
  \/ \E r \in Reqs : \E outcome \in UpstreamOutcomes : RotationDispatch(r, outcome)
  \/ \E r \in Reqs : \E request \in RoutingInputs : CachingReceive(r, request)
  \/ \E r \in Reqs : CachingLookup(r)
  \/ \E r \in Reqs : \E outcome \in UpstreamOutcomes : CachingDispatch(r, outcome)
  \/ \E r \in Reqs : \E request \in RoutingInputs : UnifiedReceive(r, request)
  \/ \E r \in Reqs : \E storeOk \in BOOLEAN : UnifiedRotate(r, storeOk)
  \/ \E r \in Reqs : UnifiedLookup(r)
  \/ \E r \in Reqs : \E outcome \in UpstreamOutcomes : UnifiedDispatch(r, outcome)
  \/ \E r \in Reqs : \E request \in RoutingInputs : LoggingReceive(r, request)
  \/ \E r \in Reqs : \E outcome \in UpstreamOutcomes : LoggingDispatch(r, outcome)
  \/ \E r \in Reqs : \E request \in RoutingInputs : SimpleReceive(r, request)
  \/ \E r \in Reqs : \E outcome \in UpstreamOutcomes : SimpleDispatch(r, outcome)
  \/ \E p \in puts : CachePut(p)

SpecRouting == InitRouting /\ [][NextRouting]_vars

----------------------------------------------------------------------------
(* The pipeline of one request, with the fairness its awaits justify: the  *)
(* workers with a cache, fully configured; a D1, a cache and an upstream   *)
(* that answer every call, with a result or with an error.                 *)

PipelineEnvs == { Env(MasterKey, TRUE, TRUE, Pools(MaxPool, 1)) }

\* A cacheable request that rotates, a request refused at classification, a
\* request that is not cacheable.
PipelineInputs ==
  { Request("POST", ChatPath, "", Bearer(MasterKey), JsonBody("gpt-4o")),
    Request("POST", IntelligentPath, "", Bearer(UserKey), JsonBody("openai/gpt-4o")),
    Request("GET", "/gemini/v1beta/models", "", GoogKey(MasterKey), NoBody) }

InitPipeline == InitWith({"unified", "caching"}, PipelineEnvs, MaxPipeReq)

\* The next await of request r returns.
PipelineStep(r) ==
  \/ \E storeOk \in BOOLEAN : UnifiedRotate(r, storeOk)
  \/ UnifiedLookup(r)
  \/ \E outcome \in UpstreamOutcomes : UnifiedDispatch(r, outcome)
  \/ CachingLookup(r)
  \/ \E outcome \in UpstreamOutcomes : CachingDispatch(r, outcome)

NextPipeline ==
  \/ \E r \in Reqs : \E request \in PipelineInputs : UnifiedReceive(r, request)
  \/ \E r \in Reqs : \E request \in PipelineInputs : CachingReceive(r, request)
  \/ \E r \in Reqs : PipelineStep(r)
  \/ \E p \in puts : CachePut(p)

\* An await whose collaborator answers does return: weak fairness on the
\* steps of every request that has arrived.
SpecPipeline ==
  /\ InitPipeline
  /\ [][NextPipeline]_vars
  /\ \A r \in 1..MaxPipeReq : WF_vars(PipelineStep(r))

----------------------------------------------------------------------------
(* Telemetry: the workers that log, deployed without the LOGS binding and  *)
(* with a binding whose writeDataPoint may throw at any call.              *)

TelemetryEnvs ==
  { [Env(MasterKey, TRUE, TRUE, Pools(MaxPool, 1)) EXCEPT !.LOGS_THROWS = TRUE],
    Env(MasterKey, TRUE, FALSE, Pools(MaxPool, 1)) }

\* A cacheable request, a request that rotates, a request for no known
\* service, a preflight.
TelemetryInputs ==
  { Request("POST", ChatPath, "", Bearer(UserKey), JsonBody("gpt-4o")),
    Request("GET", "/gemini/v1beta/models", "", GoogKey(MasterKey), NoBody),
    Request("POST", "/notarealservice/x", "", Bearer(UserKey), JsonBody("gpt-4o")),
    Request("OPTIONS", ChatPath, "", NoHeaders, NoBody) }

InitTelemetry == InitWith({"rotation", "caching", "unified"}, TelemetryEnvs, MaxTelReq)

NextTelemetry ==
  \/ \E r \in Reqs : \E request \in TelemetryInputs : RotationReceive(r, request)
  \/ \E r \in Reqs : \E storeOk \in BOOLEAN : RotationRotate(r, storeOk)
  \/ \E r \in Reqs : \E outcome \in UpstreamOutcomes : RotationDispatch(r, outcome)
  \/ \E r \in Reqs : \E request \in TelemetryInputs : CachingReceive(r, request)
  \/ \E r \in Reqs : CachingLookup(r)
  \/ \E r \in Reqs : \E outcome \in UpstreamOutcomes : CachingDispatch(r, outcome)
  \/ \E r \in Reqs : \E request \in TelemetryInputs : UnifiedReceive(r, request)
  \/ \E r \in Reqs : \E storeOk \in BOOLEAN : UnifiedRotate(r, storeOk)
  \/ \E r \in Reqs : UnifiedLookup(r)
  \/ \E r \in Reqs : \E outcome \in UpstreamOutcomes : UnifiedDispatch(r, outcome)
  \/ \E p \in puts : CachePut(p)

SpecTelemetry == InitTelemetry /\ [][NextTelemetry]_vars

----------------------------------------------------------------------------
(* Cache keys: the two workers with a cache and cacheable requests whose   *)
(* URLs and bodies differ, sent with the caller's own credential.          *)

\* The same path with two query strings and two bodies for each.
CacheKeyInputs ==
  { Request("POST", ChatPath, search, Bearer(UserKey), body) :
      search \in {"?tag=", "?tag=POST"},
      body \in {RawBody("{}"), RawBody("POST{}")} }

InitCacheKeys == InitWith({"unified", "caching"}, PipelineEnvs, MaxKeyReq)

NextCacheKeys ==
  \/ \E r \in Reqs : \E request \in CacheKeyInputs : UnifiedReceive(r, request)
  \/ \E r \in Reqs : UnifiedLookup(r)
  \/ \E r \in Reqs : \E outcome \in UpstreamOutcomes : UnifiedDispatch(r, outcome)
  \/ \E r \in Reqs : \E request \in CacheKeyInputs : CachingReceive(r, request)
  \/ \E r \in Reqs : CachingLookup(r)
  \/ \E r \in Reqs : \E outcome \in UpstreamOutcomes : CachingDispatch(r, outcome)
  \/ \E p \in puts : CachePut(p)

SpecCacheKeys == InitCacheKeys /\ [][NextCacheKeys]_vars

----------------------------------------------------------------------------
(* Properties.                                                             *)

\* The size of the pool configured for a service.
PoolSize(service) == Len(ServiceKeysEnv(env, service).keys)

\* The requests that executed a D1 statement for a service.
Rotated(service) == { r \in Reqs : ups[r] # <<>> /\ ups[r][1].service = service }

Abs(x) == IF x < 0 THEN -x ELSE x

\* C1: when the requests are served one after the other, the k-th activated
\* rotation call for a service selects pool offset (k - 1) mod N, so N calls
\* select 0, 1, ..., N-1 and the (N+1)-th selects 0 again, in the rotation
\* worker (getNextKeyIndex) and in the unified worker (getRotatingKeyFromD1).
C1_SequentialRoundRobin ==
  conc = {} =>
    \A r \in Reqs : \A i \in DOMAIN ups[r] :
      ups[r][i].index = (ups[r][i].nth - 1) % ups[r][i].keysCount

\* C2: when M <= N activated rotation calls for a service run concurrently,
\* starting from no counter record, they receive pairwise distinct pool
\* offsets and D1 executes exactly M statements for the service.
C2_ConcurrentDistinctOffsets ==
  \A s \in DOMAIN ROUTE_MAP :
    LET R == Rotated(s)
    IN  (Cardinality(R) <= PoolSize(s) /\ \A r, q \in R : r # q => {r, q} \in conc)
        => /\ \A r, q \in R : r # q => ups[r][1].index # ups[q][1].index
           /\ Cardinality(Upserts(s)) = Cardinality(R)

\* C3, as claimed: for a pool of size N > 1, no two concurrent activated
\* rotation calls for a service observe the same next_index, however many
\* callers there are.
C3_ConcurrentDistinctIndex ==
  \A r, q \in Reqs :
    (/\ r # q /\ {r, q} \in conc
     /\ ups[r] # <<>> /\ ups[q] # <<>>
     /\ ups[r][1].service = ups[q][1].service
     /\ ups[r][1].keysCount > 1)
    => ups[r][1].next_index # ups[q][1].next_index

\* C3, amended: for a pool of size N > 1, two activated rotation calls for a
\* service whose statements are fewer than N apart in the order D1 executed
\* them observe different next_index values (so up to N concurrent callers
\* with no other call between them all differ).
C3_DistinctIndexWithinPool ==
  \A r, q \in Reqs :
    (/\ r # q
     /\ ups[r] # <<>> /\ ups[q] # <<>>
     /\ ups[r][1].service = ups[q][1].service
     /\ ups[r][1].keysCount > 1
     /\ Abs(ups[r][1].nth - ups[q][1].nth) < ups[r][1].keysCount)
    => ups[r][1].next_index # ups[q][1].next_index

\* Two concurrent calls for one service with a pool of more than one key have
\* both executed their statement.
C3_Witness ==
  \E r, q \in Reqs :
    /\ r # q /\ {r, q} \in conc
    /\ ups[r] # <<>> /\ ups[q] # <<>>
    /\ ups[r][1].service = ups[q][1].service
    /\ ups[r][1].keysCount > 1
    /\ ups[r][1].next_index # ups[q][1].next_index


----------------------------------------------------------------------------
(* Rotation and the counter (general specification).                       *)

\* The counter of a service after u executions of the statement with a pool
\* of n keys: 1 after the first, then (next_index + 1) % n.
CounterAfter(u, n) == IF u = 1 THEN 1 ELSE u % n

\* Request r has passed the point where the key is selected.
PastRotation(r) == pc[r] \notin {"idle", "rotate"}

\* C4, as claimed: every request for which rotation is activated and whose
\* pool is a non-empty list executes exactly one upsert of its service's
\* counter, under any interleaving.
C4_ExactlyOneUpsert ==
  \A r \in Reqs :
    (PastRotation(r) /\ ctx[r].activated /\ ctx[r].poolOk) => Len(ups[r]) = 1

\* C4, amended: a request for which rotation is activated, whose pool is a
\* non-empty list, and whose counter store is bound and executes the
\* statement, makes exactly one upsert, of its own service's counter; when the
\* store is not bound or fails it makes none; no request makes more than one;
\* and each service's counter is what the upserts made for that service
\* alone leave in it, under any interleaving.
C4_OneUpsertWhenStoreAnswers ==
  /\ \A r \in Reqs :
       /\ Len(ups[r]) <= 1
       /\ \A i \in DOMAIN ups[r] :
            ctx[r].activated /\ ctx[r].poolOk /\ ups[r][i].service = ctx[r].service
       /\ (PastRotation(r) /\ ctx[r].activated /\ ctx[r].poolOk)
            => Len(ups[r]) = (IF env.DB /\ ~ctx[r].storeFailed THEN 1 ELSE 0)
  /\ \A s \in DOMAIN ROUTE_MAP :
       /\ s \in DOMAIN db <=> Upserts(s) # {}
       /\ s \in DOMAIN db => db[s] = CounterAfter(Cardinality(Upserts(s)), PoolSize(s))
  /\ DOMAIN db \subseteq DOMAIN ROUTE_MAP

\* Two overlapping requests for one service each made their one upsert, and a
\* request for another service made its own.
C4_Witness ==
  \E r, q \in Reqs :
    /\ r # q /\ {r, q} \in conc
    /\ pc[r] = "done" /\ pc[q] = "done"
    /\ Len(ups[r]) = 1 /\ Len(ups[q]) = 1
    /\ ups[r][1].service = ups[q][1].service
    /\ db[ups[r][1].service] = 0

\* C5: a request answered from the cache leaves the rotation counter as it
\* was, and the counter advances only for requests that are dispatched
\* upstream.
C5_HitLeavesCounter ==
  \A r \in Reqs :
    /\ ctx[r].cacheStatus = "HIT" => ups[r] = <<>>
    /\ (pc[r] = "done" /\ ups[r] # <<>>) => sent[r] # <<>>

\* The credential the worker reads from the request.
IncomingCredential(r) ==
  IF impl = "unified" THEN getApiKey(req[r])
  ELSE extractApiKey(req[r], extractRequestData(req[r]).service)

\* No master secret is configured, or the incoming credential differs from it
\* (the caching worker has no rotation at all).
NotActivated(r) ==
  /\ pc[r] # "idle"
  /\ \/ impl = "caching"
     \/ ~Truthy(env.MASTER_KEY)
     \/ IncomingCredential(r) # env.MASTER_KEY

CredentialHeaders == {"authorization", "x-api-key", "x-goog-api-key"}

\* C6: when rotation is not activated (no master secret configured, or the
\* incoming credential differs from it) the request makes no upsert of any
\* service's counter and the outbound request carries the caller's own
\* credential headers (and query string) unchanged.
C6_BypassForwardsUnchanged ==
  \A r \in Reqs :
    NotActivated(r) =>
      /\ ups[r] = <<>>
      /\ ~ctx[r].activated
      /\ \A i \in DOMAIN sent[r] :
           /\ \A n \in CredentialHeaders :
                HGet(sent[r][i].headers, n) = HGet(req[r].headers, n)
           /\ sent[r][i].url = UpstreamUrl(RouteOf(ctx[r].service),
                                   SubstringFrom(req[r].pathname, Len(ctx[r].service) + 1),
                                   req[r].search)

\* With a master secret configured and a counter that another request has
\* advanced, a request with the caller's own key was dispatched with it.
C6_Witness ==
  \E r \in Reqs :
    /\ impl \in {"rotation", "unified"}
    /\ Truthy(env.MASTER_KEY) /\ IncomingCredential(r) = UserKey
    /\ pc[r] = "done" /\ Len(sent[r]) = 1
    /\ HGet(sent[r][1].headers, "authorization") = "Bearer " \o UserKey
    /\ db # NoRows

----------------------------------------------------------------------------
(* The cache.                                                              *)

\* C7: no request triggers more than one upstream dispatch, on any path (hit,
\* miss, non-cacheable, error).
C7_AtMostOneDispatch ==
  \A r \in Reqs : Len(sent[r]) <= 1

\* One request missed the cache and went upstream once; another was then
\* answered from the cache without a dispatch.
C7_Witness ==
  \E r, q \in Reqs :
    /\ pc[r] = "done" /\ ctx[r].cacheStatus = "HIT" /\ sent[r] = <<>>
    /\ pc[q] = "done" /\ stored[q] # <<>> /\ Len(sent[q]) = 1

\* Two requests with the same URL, method and body.
SameContent(r, q) ==
  /\ RequestUrl(req[r]) = RequestUrl(req[q])
  /\ req[r].method = req[q].method
  /\ BodyText(req[r].body) = BodyText(req[q].body)

\* Request r found an entry when it looked the cache up.
Hit(r) == looked[r] # <<>> /\ looked[r][1].found

\* C8: a cacheable POST that finds an entry stored by an identical earlier
\* request is answered with the entry's status, headers and body (which are
\* those the earlier request received), is annotated HIT, and causes no
\* upstream dispatch.
C8_CacheRoundTrip ==
  \A r \in Reqs :
    (pc[r] = "done" /\ Hit(r)) =>
      LET entry == looked[r][1].entry
      IN  /\ req[r].method = "POST" /\ ctx[r].isCacheable
          /\ resp[r].status = entry.status
          /\ resp[r].body = entry.body
          /\ \A n \in DOMAIN entry.headers : HGet(resp[r].headers, n) = entry.headers[n]
          /\ ctx[r].cacheStatus = "HIT"
          /\ \A i \in DOMAIN logs[r] : logs[r][i].cacheStatus = "HIT"
          /\ sent[r] = <<>>
          /\ \E q \in Reqs \ {r} :
               /\ stored[q] # <<>> /\ stored[q][1].response = entry
               /\ stored[q][1].key.url = ctx[r].cacheKey.url
               /\ SameContent(q, r)
               /\ resp[r].status = resp[q].status /\ resp[r].body = resp[q].body
               /\ \A n \in DOMAIN resp[q].headers :
                    HGet(resp[r].headers, n) = resp[q].headers[n]

\* A request was answered from the cache and its record went to the sink.
C8_Witness ==
  \E r \in Reqs :
    /\ pc[r] = "done" /\ Hit(r) /\ logs[r] # <<>>
    /\ resp[r].status = 200 /\ resp[r].body # ""

\* C9: the cache is written only for a request that is cacheable, missed on
\* lookup and got a success status from the upstream, and under the key that
\* was looked up; a non-cacheable request neither reads nor writes the cache
\* and is annotated N/A; no entry and no pending put holds a response with a
\* non-success status or a response the worker made up itself.
C9_StoreOnlySuccessfulMiss ==
  /\ \A r \in Reqs :
       /\ stored[r] # <<>> =>
            /\ Len(stored[r]) = 1
            /\ ctx[r].isCacheable
            /\ Len(looked[r]) = 1 /\ ~looked[r][1].found
            /\ stored[r][1].key = looked[r][1].key
            /\ Len(sent[r]) = 1
            /\ Ok(resp[r]) /\ Ok(stored[r][1].response)
            /\ stored[r][1].response.body = UpstreamResponse(r, "ok").body
       /\ (impl \in {"caching", "unified"} /\ pc[r] # "idle" /\ ~ctx[r].isCacheable) =>
            /\ looked[r] = <<>> /\ stored[r] = <<>>
            /\ ctx[r].cacheStatus = "N/A"
            /\ \A i \in DOMAIN logs[r] : logs[r][i].cacheStatus = "N/A"
  /\ \A p \in puts : \E r \in Reqs : stored[r] # <<>> /\ stored[r][1] = p
  /\ \A u \in DOMAIN cache :
       \E r \in Reqs : /\ stored[r] # <<>> /\ stored[r][1].key.url = u
                       /\ stored[r][1].response = cache[u]

\* One cacheable miss got a success status and was stored; another cacheable
\* miss got an error status and was not.
C9_Witness ==
  \E r, q \in Reqs :
    /\ pc[r] = "done" /\ stored[r] # <<>> /\ cache # NoEntries
    /\ pc[q] = "done" /\ ctx[q].isCacheable /\ looked[q] # <<>> /\ ~looked[q][1].found
    /\ resp[q].status = 429 /\ stored[q] = <<>>

\* C10: two cacheable requests with the same URL, method and body derive the
\* same key digest, whatever their Authorization, x-api-key and
\* x-goog-api-key headers are.
C10_KeyIgnoresCredentials ==
  \A r, q \in Reqs :
    (/\ pc[r] # "idle" /\ pc[q] # "idle"
     /\ ctx[r].isCacheable /\ ctx[q].isCacheable
     /\ SameContent(r, q))
    => /\ Truthy(ctx[r].cacheKey.url)
       /\ ctx[r].cacheKey.url = ctx[q].cacheKey.url

\* Two cacheable requests that differ in their Authorization header only.
C10_Witness ==
  \E r, q \in Reqs :
    /\ pc[r] # "idle" /\ pc[q] # "idle"
    /\ ctx[r].isCacheable /\ ctx[q].isCacheable
    /\ SameContent(r, q)
    /\ HGet(req[r].headers, "authorization") # HGet(req[q].headers, "authorization")
    /\ ctx[r].cacheKey.url = ctx[q].cacheKey.url


----------------------------------------------------------------------------
(* Classification and errors (routing specification).                      *)

\* p occurs in s.
Contains(s, p) == \E i \in 0..(Len(s) - Len(p)) : SubSeq(s, i + 1, i + Len(p)) = p

\* The rule of cacheability, from the method, the path and the model.
CacheableByRule(method, path, model) ==
  /\ method = "POST"
  /\ \A i \in DOMAIN NON_CACHEABLE_PATHS : ~Contains(path, NON_CACHEABLE_PATHS[i])
  /\ \A i \in DOMAIN NON_CACHEABLE_MODELS :
       ~Contains(toLowerCase(model), NON_CACHEABLE_MODELS[i])

\* The model the worker resolved for the request.
ResolvedModel(r) == IF impl = "unified" THEN ctx[r].logModel ELSE ctx[r].model

\* The worker has decided whether request r is cacheable.
DecisionMade(r) ==
  /\ impl \in {"caching", "unified"}
  /\ pc[r] \in {"lookup", "dispatch"} \/ sent[r] # <<>> \/ looked[r] # <<>>

\* C11: a request is cacheable if and only if its method is POST, its path
\* contains no entry of the non-cacheable path list and its lower-cased model
\* contains no keyword of the non-cacheable keyword list; a model with such
\* a keyword is non-cacheable whatever the path and the method.
C11_CacheableIff ==
  \A r \in Reqs :
    DecisionMade(r) =>
      /\ ctx[r].isCacheable
           <=> CacheableByRule(req[r].method, req[r].pathname, ResolvedModel(r))
      /\ (\E i \in DOMAIN NON_CACHEABLE_MODELS :
            Contains(toLowerCase(ResolvedModel(r)), NON_CACHEABLE_MODELS[i]))
           => ~ctx[r].isCacheable

\* A POST on a cacheable path whose model holds a keyword in upper case was
\* found non-cacheable.
C11_Witness ==
  \E r \in Reqs :
    /\ DecisionMade(r) /\ req[r].method = "POST" /\ req[r].pathname = ChatPath
    /\ ResolvedModel(r) = "DALL-E-3" /\ ~ctx[r].isCacheable


\* Request r came in on the intelligent-mode endpoint of the unified worker.
Intelligent(r) ==
  impl = "unified" /\ pc[r] # "idle" /\ req[r].pathname = IntelligentPath

\* ... with the master secret and a JSON body.
IntelligentAuthorized(r) ==
  /\ Intelligent(r)
  /\ Truthy(env.MASTER_KEY) /\ getApiKey(req[r]) = env.MASTER_KEY
  /\ ParsesAsJson(req[r].body)

\* The model of the body, its provider prefix and what follows the prefix.
BodyModel(r) == IF Truthy(req[r].body.model) THEN req[r].body.model ELSE ""
ProviderPrefix(r) == Split(BodyModel(r), "/")[1]
ModelRest(r) == Join(Tail(Split(BodyModel(r), "/")), "/")
HasProvider(r) ==
  Len(Split(BodyModel(r), "/")) >= 2 /\ ProviderPrefix(r) \in DOMAIN ROUTE_MAP

\* Nothing was done for request r beyond answering it.
NoActivity(r) ==
  ups[r] = <<>> /\ looked[r] = <<>> /\ stored[r] = <<>> /\ sent[r] = <<>>

\* C12: an authorized intelligent-mode request whose model is
\* "<service>/<rest>", <service> a route, is classified to <service>, is
\* forwarded with the model <rest>, and its telemetry record has
\* service = <service> and model = <rest>; a model without a prefix, or with
\* a prefix that is no route, is answered 400 with no rotation, no cache
\* lookup and no dispatch.
C12_IntelligentClassification ==
  \A r \in Reqs :
    IntelligentAuthorized(r) =>
      IF HasProvider(r)
      THEN /\ ctx[r].service = ProviderPrefix(r)
           /\ \A i \in DOMAIN sent[r] :
                /\ sent[r][i].body = BodyText(JsonBody(ModelRest(r)))
                /\ sent[r][i].url = "https://" \o ROUTE_MAP[ProviderPrefix(r)] \o IntelligentPath
           /\ \A i \in DOMAIN logs[r] :
                logs[r][i].service = ProviderPrefix(r) /\ logs[r][i].model = ModelRest(r)
      ELSE /\ pc[r] = "done" /\ resp[r].status = 400
           /\ NoActivity(r)


\* ---------------------------------------------------------------------
\* C13.  An Intelligent-mode request whose credential is absent or differs
\* from the configured master secret is answered 401, and for it there is
\* no counter update, no cache lookup, no cache store and no upstream
\* dispatch.
IntelligentUnauthorized(r) ==
  /\ Intelligent(r)
  /\ (getApiKey(req[r]) = Null \/ getApiKey(req[r]) # env.MASTER_KEY)

C13_UnauthorizedIntelligent ==
  \A r \in Reqs : IntelligentUnauthorized(r) =>
      /\ pc[r] = "done"
      /\ resp[r].status = 401
      /\ NoActivity(r)

C13_Witness ==
  \E r \in Reqs :
      /\ IntelligentUnauthorized(r)
      /\ Truthy(getApiKey(req[r]))
      /\ Truthy(env.MASTER_KEY)
      /\ env.DB
      /\ pc[r] = "done"
      /\ resp[r].status = 401


\* ---------------------------------------------------------------------
\* Rotation is activated for request r: a master secret is configured and the
\* request presents it (the workers that have a rotation stage).
Activated(r) ==
  /\ pc[r] # "idle"
  /\ impl \in {"rotation", "unified"}
  /\ Truthy(env.MASTER_KEY)
  /\ IncomingCredential(r) = env.MASTER_KEY

\* The counter store cannot be reached (no D1 binding) or its statement
\* failed for request r.
StoreUnavailable(r) == ~env.DB \/ ctx[r].storeFailed

\* C14: when rotation is activated and the counter store is unreachable or
\* returns an error, the request fails: nothing is dispatched upstream, in
\* particular not with the caller's master credential, and the answer is
\* not a success.
C14_StoreFailureIsFatal ==
  \A r \in Reqs :
    (Activated(r) /\ StoreUnavailable(r)) =>
      /\ sent[r] = <<>>
      /\ pc[r] = "done" => ~Ok(resp[r])


\* ---------------------------------------------------------------------
\* The credential pool of the service of request r is missing, is not JSON,
\* is not a list, or is an empty list.
PoolUnusable(r) ==
  /\ Truthy(ctx[r].service)
  /\ LET secret == ServiceKeysEnv(env, ctx[r].service)
     IN  secret.kind = "unset" \/ ~ParsesAsKeys(secret) \/ ~IsKeyList(secret)

\* C15: when rotation is activated (the counter store being bound) and the
\* pool of the service is missing, empty or not a well-formed list, the
\* request is answered with the NotConfigured status and a message that
\* names the configuration key of the pool; no counter is changed and nothing
\* is dispatched.
C15_NotConfiguredNamesKey ==
  \A r \in Reqs :
    (Activated(r) /\ env.DB /\ req[r].method # "OPTIONS" /\ PoolUnusable(r)) =>
      /\ ups[r] = <<>>
      /\ sent[r] = <<>>
      /\ pc[r] = "done"
      /\ resp[r].status \in {500, 326}
      /\ Contains(resp[r].body, SecretName(ctx[r].service))


\* ---------------------------------------------------------------------
\* The statuses of the failures the workers answer themselves, the
\* malformed-URL rejection (325) apart; no upstream of the model answers
\* with one of them.
FailureStatuses == {400, 401, 404, 326, 500}

\* Request r failed in the rotation or the unified worker, deployed with a
\* telemetry sink.
Failed(r) ==
  /\ impl \in {"rotation", "unified"}
  /\ env.LOGS
  /\ pc[r] = "done"
  /\ resp[r].status \in FailureStatuses

\* C16: a request that fails at a stage other than the malformed-URL
\* rejection is answered, and has exactly one telemetry record, whose status
\* is the status of the answer and whose error message is the message of the
\* failure (the one the answer carries).
C16_FailureTelemetry ==
  \A r \in Reqs :
    Failed(r) =>
      /\ Len(logs[r]) = 1
      /\ logs[r][1].status = resp[r].status
      /\ Truthy(logs[r][1].errorMessage)
      /\ logs[r][1].errorMessage # ""
      /\ Contains(resp[r].body, logs[r][1].errorMessage)


\* ---------------------------------------------------------------------
\* The route table of the deployed worker.
RouteTable == IF impl \in SimpleWorkers THEN SimpleRouteMap(impl) ELSE ROUTE_MAP

\* The path of request r has a first segment and it is no key of the route
\* table (the intelligent-mode endpoint of the unified worker apart).
UnknownRoute(r) ==
  /\ pc[r] # "idle"
  /\ req[r].method # "OPTIONS"
  /\ ~Intelligent(r)
  /\ Len(PathSegments(req[r])) >= 1
  /\ PathSegments(req[r])[1] \notin DOMAIN RouteTable

\* C17: a request whose first path segment is present but is no key of the
\* route table is answered 404 with a body that lists every key of the route
\* table, and is never dispatched upstream.
C17_UnknownRoute404 ==
  \A r \in Reqs :
    UnknownRoute(r) =>
      /\ sent[r] = <<>>
      /\ pc[r] = "done" =>
           /\ resp[r].status = 404
           /\ \A k \in DOMAIN RouteTable : Contains(resp[r].body, k)


\* ---------------------------------------------------------------------
\* The URL of request r has no path segment at all.
NoSegments(r) ==
  /\ pc[r] # "idle"
  /\ req[r].method # "OPTIONS"
  /\ PathSegments(req[r]) = <<>>

\* C18: a request whose URL has no path segment is rejected at once with a
\* status of its own (no success, not 404) and a body that does not list the
\* routes, without a telemetry record and without rotation, cache or
\* upstream activity.
C18_NoSegmentsRejected ==
  \A r \in Reqs :
    NoSegments(r) =>
      /\ NoActivity(r)
      /\ logs[r] = <<>>
      /\ pc[r] = "done" =>
           /\ ~Ok(resp[r]) /\ resp[r].status # 404
           /\ ~(\A k \in DOMAIN RouteTable : Contains(resp[r].body, k))


\* ---------------------------------------------------------------------
\* The upstream fetch of request r threw (connection or name resolution).
TransportFailed(r) ==
  /\ pc[r] = "done"
  /\ sent[r] # <<>>
  /\ ctx[r].errorMessage = FetchError

\* C19: when the upstream fetch throws, the caller is answered with status
\* 502 and with no other status.
C19_TransportFailure502 ==
  \A r \in Reqs : TransportFailed(r) => resp[r].status = 502


\* ---------------------------------------------------------------------
\* The response carries the permissive cross-origin headers.
HasCors(response) ==
  /\ HGet(response.headers, "access-control-allow-origin") = "*"
  /\ Truthy(HGet(response.headers, "access-control-allow-methods"))
  /\ Truthy(HGet(response.headers, "access-control-allow-headers"))

\* C20: every response returned to the caller carries the permissive
\* cross-origin headers, the cache hits and the error responses the worker
\* makes itself included.
C20_CorsOnEveryResponse ==
  \A r \in Reqs : pc[r] = "done" => HasCors(resp[r])


\* ---------------------------------------------------------------------
\* Request r is a preflight.
Preflight(r) == pc[r] # "idle" /\ req[r].method = "OPTIONS"

\* C21: an OPTIONS request, whatever its path (no segment, an unknown first
\* segment, the intelligent-mode endpoint without the master secret), is
\* answered 204 with the cross-origin headers and is never dispatched
\* upstream.
C21_PreflightAlways204 ==
  \A r \in Reqs :
    Preflight(r) =>
      /\ sent[r] = <<>>
      /\ pc[r] = "done" => (resp[r].status = 204 /\ HasCors(resp[r]))


\* ---------------------------------------------------------------------
\* The workers that classify a request into a service and a model.
Classifiers == {"rotation", "caching", "logging", "unified"}

\* Request r was classified in transparent mode.
Transparent(r) ==
  /\ impl \in Classifiers
  /\ pc[r] # "idle"
  /\ ~Intelligent(r)
  /\ Truthy(ctx[r].service)

\* The model field of the body of request r, Null when the method carries no
\* body to read, the body is no JSON or the field is absent or empty.
TransparentBodyModel(r) ==
  IF req[r].method = "POST" /\ ParsesAsJson(req[r].body) /\ Truthy(req[r].body.model)
  THEN req[r].body.model ELSE Null

\* C22: in transparent mode a gemini request whose body yields no model is
\* classified with service gemini and with the model that is the fourth
\* path segment up to its first ':'
\* (/gemini/v1beta/models/gemini-pro:generateContent gives gemini-pro).
C22_GeminiPathModel ==
  \A r \in Reqs :
    (/\ Transparent(r)
     /\ Len(PathSegments(req[r])) >= 4
     /\ PathSegments(req[r])[1] = "gemini"
     /\ TransparentBodyModel(r) = Null) =>
      /\ ctx[r].service = "gemini"
      /\ ctx[r].model = Split(PathSegments(req[r])[4], ":")[1]


\* ---------------------------------------------------------------------
\* A pool credential was selected for request r.
Selected(r) == Truthy(ctx[r].overrideApiKey)

\* The outbound request carries the selected credential as the unified
\* worker injects it: in the query string for gemini, with the caller's
\* Authorization and x-goog-api-key headers removed; as bearer token for every
\* other service.
InjectedByQueryOrBearer(r, out) ==
  IF ctx[r].service = "gemini"
  THEN /\ Contains(out.url, "key=" \o ctx[r].overrideApiKey)
       /\ HGet(out.headers, "authorization") = Null
       /\ HGet(out.headers, "x-goog-api-key") = Null
  ELSE HGet(out.headers, "authorization") = "Bearer " \o ctx[r].overrideApiKey

\* ... and as the rotation worker injects it: in the header of the service's
\* own convention.
InjectedByHeader(r, out) ==
  CASE ctx[r].service = "gemini" -> HGet(out.headers, "x-goog-api-key") = ctx[r].overrideApiKey
    [] ctx[r].service = "claude" -> HGet(out.headers, "x-api-key") = ctx[r].overrideApiKey
    [] OTHER -> HGet(out.headers, "authorization") = "Bearer " \o ctx[r].overrideApiKey

\* C23 as stated: once a pool credential is selected, the outbound request of
\* a gemini request carries key=<selected credential> in its URL and neither
\* an Authorization nor an x-goog-api-key header, and the outbound request of
\* any other service has Authorization: Bearer <selected credential>.
C23_InjectionQueryOrBearer ==
  \A r \in Reqs : \A i \in DOMAIN sent[r] :
    Selected(r) => InjectedByQueryOrBearer(r, sent[r][i])

\* C23 amended: that holds of the unified worker; the rotation worker puts the
\* selected credential in x-goog-api-key for gemini, in x-api-key for claude
\* and in Authorization: Bearer for every other service.
C23_InjectionPerWorker ==
  \A r \in Reqs : \A i \in DOMAIN sent[r] :
    Selected(r) =>
      /\ impl = "unified" => InjectedByQueryOrBearer(r, sent[r][i])
      /\ impl = "rotation" => InjectedByHeader(r, sent[r][i])

\* The unified worker dispatched a gemini request that came with both
\* credential headers and a query string, with a selected key.
C23_Witness ==
  \E r \in Reqs :
    /\ impl = "unified" /\ Selected(r) /\ ctx[r].service = "gemini"
    /\ sent[r] # <<>>
    /\ req[r].search # ""
    /\ HGet(req[r].headers, "authorization") # Null
    /\ HGet(req[r].headers, "x-goog-api-key") # Null


\* ---------------------------------------------------------------------
\* C24: in every state of the table rotation_state, the next_index stored
\* for a service lies in 0 .. N-1, N the size of the pool of that service,
\* also right after the first statement for the service and for N = 1.
C24_StoredIndexInRange ==
  \A service \in DOMAIN db :
    db[service] >= 0 /\ db[service] < PoolSize(service)


\* ---------------------------------------------------------------------
\* C25: whatever next_index the statement returns and whatever the size N of
\* the pool, the offset selected is (next_index - 1 + N) mod N, an offset of
\* the pool; a returned 0 selects the offset N - 1.
C25_RawIndexNormalised ==
  \A r \in Reqs : \A i \in DOMAIN ups[r] :
    LET u == ups[r][i]
    IN  /\ u.index = (u.next_index - 1 + u.keysCount) % u.keysCount
        /\ u.index >= 0 /\ u.index < u.keysCount
        /\ u.next_index = 0 => u.index = u.keysCount - 1


\* ---------------------------------------------------------------------
\* What one step may do to request r: a stage runs at most once and in its
\* place.  The lookup comes after classification and before any dispatch or
\* store; the dispatch comes after the lookup of a cacheable request and
\* before any store; the store follows the dispatch; the response ends the
\* request; an error ends it in the step that raises it; nothing happens to
\* a request that has been answered.
StagesInOrder(r) ==
  /\ looked'[r] # looked[r] =>
       /\ looked[r] = <<>> /\ sent[r] = <<>> /\ stored[r] = <<>>
       /\ Truthy(ctx[r].service) /\ pc[r] \notin {"idle", "done"}
  /\ sent'[r] # sent[r] =>
       /\ sent[r] = <<>> /\ stored[r] = <<>> /\ Len(sent'[r]) = 1
       /\ Truthy(ctx[r].service) /\ pc[r] \notin {"idle", "done"}
       /\ ctx[r].isCacheable => looked[r] # <<>>
  /\ stored'[r] # stored[r] =>
       /\ stored[r] = <<>> /\ Len(stored'[r]) = 1
       /\ sent'[r] # <<>> /\ looked[r] # <<>>
  /\ ups'[r] # ups[r] => ups[r] = <<>> /\ Len(ups'[r]) = 1
  /\ resp'[r] # resp[r] => pc[r] # "done" /\ pc'[r] = "done"
  /\ pc'[r] = "done" /\ pc[r] # "done" => resp'[r] # NoResponse
  /\ (ctx'[r].errorMessage # Null /\ ctx[r].errorMessage = Null) => pc'[r] = "done"
  /\ pc[r] = "done" =>
       /\ pc'[r] = "done" /\ resp'[r] = resp[r]
       /\ looked'[r] = looked[r] /\ sent'[r] = sent[r]
       /\ stored'[r] = stored[r] /\ ups'[r] = ups[r]

\* C26: for every request the stages classification, cache lookup (if
\* cacheable), upstream dispatch, cache store (if applicable) and response
\* occur in that order, each at most once; after a fatal error no later stage
\* runs; and every request that has arrived ends with one response, the
\* collaborators answering.
C26_PipelineOrder ==
  /\ [][\A r \in Reqs : StagesInOrder(r)]_vars
  /\ \A r \in 1..MaxPipeReq : (pc[r] # "idle") ~> (pc[r] = "done")

\* One request ran every stage and another ended in the rotation stage on a
\* failing D1 statement.
C26_Witness ==
  \E r, q \in Reqs :
    /\ pc[r] = "done" /\ looked[r] # <<>> /\ sent[r] # <<>> /\ stored[r] # <<>>
    /\ pc[q] = "done" /\ ctx[q].storeFailed /\ NoActivity(q)


\* ---------------------------------------------------------------------
\* Requests r and q, identical in content, both missed and both stored.
BothMissed(r, q) ==
  /\ r # q /\ SameContent(r, q)
  /\ stored[r] # <<>> /\ stored[q] # <<>>
  /\ ~Hit(r) /\ ~Hit(q)

\* C27: two identical cacheable requests that both miss have each
\* dispatched once and stored under the same key; each is answered with the
\* successful response of its own dispatch; and once the puts have
\* completed, the cache holds under that key one of the stored responses.
C27_RacingMissesLastWriterWins ==
  \A r, q \in Reqs :
    BothMissed(r, q) =>
      /\ Len(sent[r]) = 1 /\ Len(sent[q]) = 1
      /\ stored[r][1].key = stored[q][1].key
      /\ pc[r] = "done" /\ Ok(resp[r])
      /\ resp[r] = ProxyResponse(UpstreamResponse(r, "ok"))
      /\ stored[r][1].response = ResponseToCache(resp[r])
      /\ puts = {} =>
           /\ CacheHas(stored[r][1].key)
           /\ CacheMatch(stored[r][1].key) \in
                { stored[x][1].response :
                    x \in { y \in Reqs : stored[y] # <<>>
                                           /\ stored[y][1].key = stored[r][1].key } }

\* Both racing requests stored, the puts have completed, and the entry is the
\* response of the request that arrived first: its put came last.
C27_Witness ==
  \E r, q \in Reqs :
    /\ r < q /\ BothMissed(r, q)
    /\ puts = {}
    /\ CacheMatch(stored[r][1].key) = stored[r][1].response
    /\ stored[r][1].response # stored[q][1].response


\* ---------------------------------------------------------------------
\* The credential of another caller.
OtherKey == "another-user-key"

\* The request of another caller with the same content: every credential
\* input the request uses carries the other caller's credential.
Recredentialed(request, token) ==
  LET h0 == request.headers
      h1 == IF HGet(h0, "authorization") # Null
            THEN HSet(h0, "authorization", "Bearer " \o token) ELSE h0
      h2 == IF HGet(h1, "x-goog-api-key") # Null THEN HSet(h1, "x-goog-api-key", token) ELSE h1
      h3 == IF HGet(h2, "x-api-key") # Null THEN HSet(h2, "x-api-key", token) ELSE h2
  IN  [request EXCEPT !.headers = h3,
                      !.search = IF HasKeyParam(@) THEN SetKeyParam(@, token) ELSE @]

\* C28: the cache key of a cacheable request is the key derived for the
\* request of another caller with the same service, path, method and body,
\* whichever input carries the credential: the Authorization header, the
\* x-goog-api-key header, the x-api-key header or the query parameter key.
C28_KeyIgnoresEveryCredentialInput ==
  \A r \in Reqs :
    (impl = "unified" /\ pc[r] # "idle" /\ ctx[r].isCacheable) =>
      generateContentBasedCacheKey(
          Recredentialed(req[r], OtherKey),
          IF ctx[r].isIntelligentGateway THEN BodyText(ctx[r].requestBody) ELSE Null).url
        = ctx[r].cacheKey.url


\* ---------------------------------------------------------------------
\* C29: in transparent mode, for every service, a POST body that parses as
\* JSON and carries a non-empty model field gives the classified model: the
\* model of the classification is that field, whatever the path holds.
C29_BodyModelFirst ==
  \A r \in Reqs :
    (Transparent(r) /\ TransparentBodyModel(r) # Null) =>
      ctx[r].model = TransparentBodyModel(r)


\* ---------------------------------------------------------------------
\* C30: the unified worker treats a request as intelligent mode if and only
\* if its path is exactly /v1/chat/completions; a path that only starts with
\* that string (/v1/chat/completions/extra) is not intelligent mode.
C30_IntelligentIffExactPath ==
  \A r \in Reqs :
    (impl = "unified" /\ pc[r] # "idle") =>
      (ctx[r].isIntelligentGateway <=> req[r].pathname = IntelligentPath)


\* ---------------------------------------------------------------------
\* Request r ended and none of its records reached the sink: the LOGS
\* binding is missing or writeDataPoint threw.
TelemetryFailed(r) == pc[r] = "done" /\ logs[r] = <<>>

\* response a carries the status, the body and every header of response b.
Carries(a, b) ==
  /\ a.status = b.status
  /\ a.body = b.body
  /\ \A h \in DOMAIN b.headers : HGet(a.headers, h) = b.headers[h]

\* The response of r is the one its handling produced: the entry found in
\* the cache, or the upstream's answer, or the worker's own response: the
\* message of the error the handler met, and a 500 only for such an error or
\* for a counter store that failed.
ResponseUntouched(r) ==
  IF looked[r] # <<>> /\ looked[r][Len(looked[r])].found
  THEN Carries(resp[r], looked[r][Len(looked[r])].entry)
  ELSE IF sent[r] # <<>> /\ ctx[r].errorMessage = Null
  THEN \E outcome \in {"ok", "status429"} :
         Carries(resp[r], ProxyResponse(UpstreamResponse(r, outcome)))
  ELSE /\ resp[r].status # 0
       /\ ctx[r].errorMessage # Null => Contains(resp[r].body, ctx[r].errorMessage)
       /\ resp[r].status = 500 =>
            ctx[r].errorMessage # Null \/ (Activated(r) /\ StoreUnavailable(r))

\* C31: a failure of the telemetry emission (no LOGS binding, or
\* writeDataPoint throwing) leaves the status, the headers and the body of
\* the response as the handling produced them, and the records are handed
\* over in the very step that returns the response: no step of a request
\* waits for the write.
C31_TelemetryFailureHarmless ==
  /\ [](\A r \in Reqs : TelemetryFailed(r) => ResponseUntouched(r))
  /\ [][\A r \in Reqs : logs'[r] # logs[r] => pc[r] # "done" /\ pc'[r] = "done"]_vars

\* writeDataPoint threw for a request that the upstream answered, and for a
\* request answered from the cache.
C31_Witness ==
  /\ env.LOGS /\ env.LOGS_THROWS
  /\ \E r, q \in Reqs :
       /\ TelemetryFailed(r) /\ sent[r] # <<>> /\ Ok(resp[r])
       /\ TelemetryFailed(q) /\ ctx[q].cacheStatus = "HIT"


\* ---------------------------------------------------------------------
\* The master secret occurs in a header or in the URL (hence in a query
\* parameter) of outbound request out.
CarriesMasterKey(out) ==
  \/ \E h \in DOMAIN out.headers : Contains(out.headers[h], env.MASTER_KEY)
  \/ Contains(out.url, env.MASTER_KEY)

\* C32: a request whose incoming credential is the configured master secret
\* never puts the master secret on the wire: no outbound request of it holds
\* the secret in a header or in a query parameter, whatever the deployment
\* (with or without the counter store) and whichever input carried it.
C32_MasterKeyConfined ==
  \A r \in Reqs :
    (/\ impl \in {"rotation", "unified"}
     /\ pc[r] # "idle"
     /\ Truthy(env.MASTER_KEY)
     /\ IncomingCredential(r) = env.MASTER_KEY) =>
      \A i \in DOMAIN sent[r] : ~CarriesMasterKey(sent[r][i])


\* ---------------------------------------------------------------------
\* C33: the two rotation implementations are equivalent: on every stored
\* counter state and every pool size N >= 1 the statement of either leaves
\* the same stored index, and from the index it returns getNextKeyIndex and
\* getRotatingKeyFromD1 select the same offset of the pool, so that the
\* calls of either worker yield the credentials the other would yield.
C33_RotationsEquivalent ==
  \A r \in Reqs : \A i \in DOMAIN ups[r] :
    LET u == ups[r][i]
    IN  /\ u.keysCount >= 1
        /\ getNextKeyIndex(u.next_index, u.keysCount)
             = getRotatingKeyIndex(u.next_index, u.keysCount)
        /\ u.index \in { getNextKeyIndex(u.next_index, u.keysCount),
                         getRotatingKeyIndex(u.next_index, u.keysCount) }


\* ---------------------------------------------------------------------
\* Requests r and q are cacheable and differ in their URL or in their body.
DistinctContent(r, q) ==
  /\ pc[r] # "idle" /\ pc[q] # "idle"
  /\ ctx[r].isCacheable /\ ctx[q].isCacheable
  /\ \/ RequestUrl(req[r]) # RequestUrl(req[q])
     \/ BodyText(req[r].body) # BodyText(req[q].body)

\* C34: two cacheable requests that differ in URL or in body feed different
\* strings to the digest and so (the digest being taken as free of
\* collisions) get different cache keys.
C34_DistinctContentDistinctKey ==
  \A r, q \in Reqs :
    DistinctContent(r, q) => ctx[r].cacheKey.url # ctx[q].cacheKey.url


\* ---------------------------------------------------------------------
\* C35: an OPTIONS request changes no shared state: it executes no upsert of
\* a rotation counter, even when it carries the master secret, and it makes
\* no cache lookup and issues no cache.put.
C35_PreflightTouchesNothing ==
  \A r \in Reqs :
    Preflight(r) =>
      /\ ups[r] = <<>>
      /\ looked[r] = <<>>
      /\ stored[r] = <<>>

=============================================================================
